---------------------------- MODULE Spec2Model ----------------------------
(***************************************************************************)
(* State-machine model of the scrapers collection:                         *)
(*   - BaseScraper.run / ReinfoScraper.run: the session lifecycle          *)
(*     (setup, scrape, full save, partial save on failure, teardown);      *)
(*   - RedjumScraper / SunatScraper: the per-key batch loop, the page      *)
(*     navigator, the challenge prompt and the network event correlator;   *)
(*   - ReinfoScraper: the pagination traversal of the registry dump.       *)
(* The browser, the target site and the operator are the environment:      *)
(* every driver command may succeed, raise an Exception or be cut by a     *)
(* KeyboardInterrupt.                                                      *)
(***************************************************************************)
EXTENDS Naturals, Sequences, FiniteSets

(* ------------------------------ bounds --------------------------------- *)
\* Longest input key sequence read from the CSV file.
MaxKeys == 2
\* Most log entries the target page produces for one form submission.
MaxStream == 2
\* Most entries the browser's performance log holds unread; the browser logs
\* no further entry while the log is that long.
MaxLog == 3
\* Most result pages of the registry grid.
MaxPages == 3
\* Data rows shown on one result page.
MaxRows == 2
\* Request identifiers that may occur in one window of the performance log.
MaxIds == 2
\* Most elements of a result page whose presence differs from that of the
\* page's other elements.
MaxOdd == 1
\* Most calls of run() on one scraper object that shut a browser down.
MaxRuns == 2
\* Most reads of one field extraction that raise although the element is on
\* the page.
MaxLost == 1

(* ------------------------- program constants --------------------------- *)
\* process_current_page skips the first three tr of the table.
RowOffset == 3

VARIABLES
    site,             \* which scraper runs: "redjum", "sunat" or "reinfo"
    now,              \* the clock's second, as strftime("%Y%m%d_%H%M%S") shows it
    pc,               \* position of the single control flow
    driver,           \* self.driver is set (the browser was started)
    quits,            \* number of driver.quit() calls issued
    cleaned,          \* cleanup() has been executed
    teardown_raised,  \* history: what the finally clause of run() raised
    exc,              \* the failure caught by run()'s except clause, or "none"
    partial,          \* save_partial_results(): "none", "ok" or "raised"
    raised,           \* the exception that leaves run(), or "none"
    interrupted,      \* history: an operator interrupt has arrived
    files,            \* the written artifacts: path -> content
    data,             \* self.data: key -> payload (lookup), list of rows (reinfo)
    csv_path,         \* self.csv_path is given
    csv_file,         \* the CSV file: [readable, keys]
    csv_data,         \* self.csv_data: [loaded, keys]
    dni_results,      \* self.dni_results / self.ruc_results: the status ledger
    index,            \* the batch loop's position (1-based)
    attempted,        \* history: indexes whose attempt has started
    network_enabled,  \* self.network_enabled
    net,              \* browser side: [enabled, patterns]
    log,              \* the browser's performance log, not yet read
    inflight,         \* how many entries the loaded page may still log
    page,             \* index of the attempt whose page is loaded, 0 if none
    keyexc,           \* exception pending inside extract_dni_info's try block
    devtools,         \* extract_dni_info's local: the log window it has read
    prompts,          \* history: calls of get_captcha_solution in the current attempt
    snapshot,         \* history: self.data as it was when the current attempt started
    caught,           \* history: the exception scrape's except clause caught last
    dom,              \* sunat: the result page's elements, by selector
    num_pages,        \* reinfo: pages of the result grid
    lblhasta,         \* reinfo: the total the site reports
    total_pages,      \* reinfo: self.total_pages
    shown,            \* reinfo: the page the browser shows, 0 before the search
    page_count,       \* reinfo: scrape_all_pages' local counter
    clicks,           \* history: clicks on the next control
    parsed            \* history: pages process_current_page has parsed

runVars == <<site, now, pc, driver, quits, cleaned, teardown_raised, exc, partial, raised, interrupted,
             files, data>>
lookupVars == <<csv_path, csv_file, csv_data, dni_results, index, attempted,
                network_enabled, net, log, inflight, page, keyexc, devtools,
                prompts, snapshot, caught, dom>>
reinfoVars == <<num_pages, lblhasta, total_pages, shown, page_count, clicks, parsed>>
vars == <<runVars, lookupVars, reinfoVars>>

(* ------------------------------ helpers -------------------------------- *)
Keys == {"A", "B"}

RECURSIVE SeqsUpTo(_, _)
\* All sequences over S of length at most n.
SeqsUpTo(S, n) ==
    IF n = 0 THEN {<<>>}
    ELSE LET shorter == SeqsUpTo(S, n - 1)
         IN shorter \cup {Append(s, x) : s \in {t \in shorter : Len(t) = n - 1}, x \in S}

\* The key columns a CSV file can hold, up to the renaming of keys: the first
\* key is "A"; a later key may repeat an earlier one.
InputKeys == {s \in SeqsUpTo(Keys, MaxKeys) : s = <<>> \/ s[1] = "A"}

\* f with path p (re)written to content c: open(p, "w") truncates.
Write(f, p, c) == [q \in DOMAIN f \cup {p} |-> IF q = p THEN c ELSE f[q]]

(* ------------------------- artifact names ------------------------------ *)
\* A path is a name and the second its "<timestamp>" stands for; a name
\* without a timestamp has the second 0.
Unstamped(name) == <<name, 0>>

Stamped(name, t) == <<name, t>>

FullDump(s) ==
    Unstamped(CASE s = "redjum" -> "data/redjum_scraper_results.json"
                [] s = "sunat"  -> "data/sunat_scraper_results.json"
                [] OTHER        -> "data/reinfo_scraper_results.txt")

FullLedger(s) ==
    Unstamped(CASE s = "redjum" -> "data/redjum_scraping_results.csv"
                [] s = "sunat"  -> "data/sunat_scraping_results.csv"
                [] OTHER        -> "data/reinfo_scraper_results.csv")

\* The names save_partial_results builds from datetime.now(): each call names
\* the file after the second it is made in.
PartialDump(s) ==
    Stamped(CASE s = "redjum" -> "data/redjum_scraper_partial_data_<timestamp>.json"
              [] s = "sunat"  -> "data/sunat_scraper_partial_data_<timestamp>.json"
              [] OTHER        -> "data/reinfo_scraper_partial_data_<timestamp>.txt",
            now)

\* The second path save_partial_results hands to save_results: the lookup
\* scrapers pass only the JSON path, so the ledger keeps its default name.
PartialLedger(s) ==
    CASE s = "redjum" -> FullLedger(s)
      [] s = "sunat"  -> FullLedger(s)
      [] OTHER        ->
           Stamped("data/reinfo_scraper_partial_data_<timestamp>.csv", now)

\* The second artifact's content: the ledger (lookup) or the rows as a table.
SecondContent == IF site = "reinfo" THEN data ELSE dni_results

(* ------------------------ exception classes ---------------------------- *)
\* A handler that swallows every failure it has saved the partial results of.
Swallowed_All(e) == TRUE

\* run(), line 127: except (Exception, KeyboardInterrupt).
\* run(), line 131: the caught failure is re-raised unless it is a
\* KeyboardInterrupt.
Swallowed(e) == e = "KeyboardInterrupt"

\* The lines "except Exception" of scrape, perform_complete_cleanup,
\* cleanup_network_listeners: a KeyboardInterrupt is no Exception.
IsException(e) == e # "KeyboardInterrupt"

\* A run() without the except clause: the failure goes straight to finally.
Raise_NoHandler(e) == /\ exc' = e
                      /\ interrupted' = (interrupted \/ e = "KeyboardInterrupt")
                      /\ pc' = "finally"

\* A failure escapes to run()'s except clause.
Raise(e) == /\ exc' = e
            /\ interrupted' = (interrupted \/ e = "KeyboardInterrupt")
            /\ pc' = "handler"

(* --------------------- the session lifecycle: run() -------------------- *)
FirstScrapePc == IF site = "reinfo" THEN "navigate" ELSE "load"

\* setup_driver(): webdriver.Chrome(options) succeeds, raises or is
\* interrupted; an interrupt in the log line that follows the assignment
\* ("interrupt_log") leaves run() with self.driver set.
SetupDriver ==
    /\ pc = "setup"
    /\ \E o \in {"ok", "error", "interrupt", "interrupt_log"} :
          CASE o = "ok" -> /\ driver' = TRUE
                           /\ pc' = FirstScrapePc
                           /\ UNCHANGED <<exc, interrupted>>
            [] o = "error" -> /\ Raise("WebDriverException")
                              /\ UNCHANGED driver
            [] o = "interrupt_log" -> /\ Raise("KeyboardInterrupt")
                                      /\ driver' = TRUE
            [] OTHER -> /\ Raise("KeyboardInterrupt")
                        /\ UNCHANGED driver
    /\ UNCHANGED <<site, now, quits, cleaned, teardown_raised, partial, raised, files, data>>
    /\ UNCHANGED <<lookupVars, reinfoVars>>

\* What a file holds: how much of the content handed to the write got into
\* it ("whole", "part" or "nothing") and the content that can be read back.
Whole(c) == [written |-> "whole", content |-> c]

\* What a file holds once open(path, "w") has truncated it and nothing has
\* been written: no bytes, which is not the dump of an empty result.
EmptyFile == [written |-> "nothing", content |-> <<>>]

\* A file whose writing stopped after the rows c.
Part(c) == [written |-> "part", content |-> c]

\* What the JSON dump holds when json.dump stopped between two of its writes:
\* the beginning of a document, which no parser accepts.
PartialJson == Part(<<>>)

\* How far save_results gets: "ok" to its end; "fail_open" an exception of
\* os.makedirs or of open() on the dump; "fail_dump" an exception of one of
\* the dump's writes (json.dump, file_txt.write) after open() has truncated
\* the file; "fail_ledger" an exception between the dump and the opening of
\* the ledger by to_csv; "fail_ledger_write" an exception of to_csv after it
\* opened the ledger; "interrupt", "interrupt_dump", "interrupt_ledger",
\* "interrupt_ledger_write" the operator's interrupt at these four places;
\* "interrupt_log" the operator's interrupt in the last logger call, after
\* to_csv returned.
SaveOutcomes ==
    {"ok", "fail_open", "fail_dump", "fail_ledger", "fail_ledger_write",
     "interrupt", "interrupt_dump", "interrupt_ledger", "interrupt_ledger_write",
     "interrupt_log"}

SaveInterrupted(o) ==
    o \in {"interrupt", "interrupt_dump", "interrupt_ledger",
           "interrupt_ledger_write", "interrupt_log", "interrupt_handler"}

\* What run()'s except clause may do: its two log lines come before
\* save_partial_results(), and an interrupt in them ("interrupt_handler")
\* leaves the clause before anything is written.
HandlerOutcomes == SaveOutcomes \cup {"interrupt_handler"}

\* What self.save_partial_results() came to: "none" while it was not called,
\* "ok" when it returned, "raised" when an Exception left it, "interrupted"
\* when a KeyboardInterrupt left it.
PartialResult(o) ==
    CASE o = "ok" -> "ok"
      [] o = "interrupt_handler" -> "none"
      [] SaveInterrupted(o) -> "interrupted"
      [] OTHER -> "raised"

\* The pieces the dump is written in: Reinfo writes a row at a time,
\* json.dump an empty result at once and any other in several writes.
DumpPieces ==
    IF site = "reinfo" THEN Len(data)
    ELSE IF DOMAIN data = {} THEN 1 ELSE 2

\* What the dump holds when its writing stopped after k pieces: nothing, or
\* the rows written until then, or the beginning of the JSON document.
DumpCut(k) ==
    IF k = 0 THEN EmptyFile
    ELSE IF site = "reinfo" THEN Part(SubSeq(data, 1, k)) ELSE PartialJson

\* What the ledger holds when to_csv stopped after k rows: nothing, or the
\* rows written until then.
LedgerCut(k) == IF k = 0 THEN EmptyFile ELSE Part(SubSeq(SecondContent, 1, k))

\* The numbers of pieces after which a write that does not end may stop.
SaveCuts(o) ==
    LET upto(n) == 0..(IF n > 1 THEN n - 1 ELSE 0)
    IN CASE o \in {"fail_dump", "interrupt_dump"} -> upto(DumpPieces)
         [] o \in {"fail_ledger_write", "interrupt_ledger_write"} ->
              upto(Len(SecondContent))
         [] OTHER -> {0}

\* A save_results that opens the ledger file in append mode.
SaveInto_AppendLedger(dump, ledger, o, k) ==
    LET old == IF ledger \in DOMAIN files THEN files[ledger].content ELSE <<>>
        dumped == Write(files, dump, Whole(data))
    IN CASE o \in {"ok", "interrupt_log"} ->
              Write(dumped, ledger, Whole(old \o SecondContent))
         [] o \in {"fail_dump", "interrupt_dump"} -> Write(files, dump, DumpCut(k))
         [] o \in {"fail_ledger", "interrupt_ledger"} -> dumped
         [] o \in {"fail_ledger_write", "interrupt_ledger_write"} ->
              Write(dumped, ledger, Part(old \o SubSeq(SecondContent, 1, k)))
         [] OTHER -> files

\* save_results(dump, ledger): truncates the dump and writes it, then
\* truncates the ledger and writes it; o says how far it gets and k after
\* how many pieces a write stopped.
SaveInto(dump, ledger, o, k) ==
    LET dumped == Write(files, dump, Whole(data))
    IN CASE o \in {"ok", "interrupt_log"} -> Write(dumped, ledger, Whole(SecondContent))
         [] o \in {"fail_dump", "interrupt_dump"} -> Write(files, dump, DumpCut(k))
         [] o \in {"fail_ledger", "interrupt_ledger"} -> dumped
         [] o \in {"fail_ledger_write", "interrupt_ledger_write"} ->
              Write(dumped, ledger, LedgerCut(k))
         [] OTHER -> files

\* run(), line 126: save_results() with its default paths.
SaveResults ==
    /\ pc = "save"
    /\ \E o \in SaveOutcomes :
          /\ \E k \in SaveCuts(o) : files' = SaveInto(FullDump(site), FullLedger(site), o, k)
          /\ CASE o = "ok" -> pc' = "finally" /\ UNCHANGED <<exc, interrupted>>
               [] SaveInterrupted(o) -> Raise("KeyboardInterrupt")
               [] OTHER -> Raise("SaveError")
    /\ UNCHANGED <<site, now, driver, quits, cleaned, teardown_raised, partial, raised, data>>
    /\ UNCHANGED <<lookupVars, reinfoVars>>

\* A handler in which the swallowing of the interrupt also swallows the
\* exception of the partial save.
HandlerRaises_InterruptWins(o) ==
    IF Swallowed(exc) THEN "none"
    ELSE CASE o = "ok" -> exc
           [] SaveInterrupted(o) -> "KeyboardInterrupt"
           [] OTHER -> "PartialSaveError"

\* What leaves run() once the handler has run: nothing when the partial save
\* completed and the failure is swallowed, the failure when it is re-raised,
\* the partial save's own exception when that raised.
HandlerRaises(o) ==
    CASE o = "ok" -> IF Swallowed(exc) THEN "none" ELSE exc
      [] SaveInterrupted(o) -> "KeyboardInterrupt"
      [] OTHER -> "PartialSaveError"

\* A handler outside the try/finally: a raising partial save leaves run()
\* without the teardown.
SavePartialResults_NoFinally ==
    /\ pc = "handler"
    /\ \E o \in HandlerOutcomes :
          /\ \E k \in SaveCuts(o) : files' = SaveInto(PartialDump(site), PartialLedger(site), o, k)
          /\ partial' = PartialResult(o)
          /\ raised' = HandlerRaises(o)
          /\ interrupted' = (interrupted \/ SaveInterrupted(o))
          /\ pc' = IF o = "ok" THEN "finally" ELSE "done"
    /\ UNCHANGED <<site, now, driver, quits, cleaned, teardown_raised, exc, data>>
    /\ UNCHANGED <<lookupVars, reinfoVars>>

\* run(), lines 127-132: the except clause writes two log lines and calls
\* save_partial_results(), which calls save_results with the timestamped
\* paths.
SavePartialResults ==
    /\ pc = "handler"
    /\ \E o \in HandlerOutcomes :
          /\ \E k \in SaveCuts(o) : files' = SaveInto(PartialDump(site), PartialLedger(site), o, k)
          /\ partial' = PartialResult(o)
          /\ raised' = HandlerRaises(o)
          /\ interrupted' = (interrupted \/ SaveInterrupted(o))
    /\ pc' = "finally"
    /\ UNCHANGED <<site, now, driver, quits, cleaned, teardown_raised, exc, data>>
    /\ UNCHANGED <<lookupVars, reinfoVars>>

\* What the finally clause may do. driver.quit() returns, raises a
\* WebDriverException ("QuitError"), or is interrupted by the operator; the
\* log line of cleanup() after the quit and the log line that ends the
\* finally clause may be interrupted as well ("interrupt_log"), the latter
\* also when there is no driver to quit.
QuitOutcomes == {"ok", "error", "interrupt", "interrupt_log"}

\* The outcomes of the finally clause when self.driver is unset.
IdleOutcomes == {"ok", "interrupt_log"}

QuitInterrupted(o) == o \in {"interrupt", "interrupt_log"}

\* What the finally clause raises: it has no try block, so what driver.quit()
\* or a log line raises in it takes the place of whatever was about to leave
\* run().
QuitRaises(o) ==
    CASE o = "ok" -> "none"
      [] o = "error" -> "QuitError"
      [] OTHER -> "KeyboardInterrupt"

\* A cleanup() that quits without looking at self.driver.
Cleanup_AlwaysQuit ==
    /\ pc = "finally"
    /\ \E o \in QuitOutcomes :
          /\ teardown_raised' = QuitRaises(o)
          /\ raised' = IF o = "ok" THEN raised ELSE QuitRaises(o)
          /\ interrupted' = (interrupted \/ QuitInterrupted(o))
    /\ quits' = quits + 1
    /\ cleaned' = TRUE
    /\ pc' = "done"
    /\ UNCHANGED <<site, now, driver, exc, partial, files, data>>
    /\ UNCHANGED <<lookupVars, reinfoVars>>

\* run(), lines 133-136: finally: cleanup(), which calls driver.quit() when
\* self.driver is set and writes a log line after it; then the duration is
\* computed and the last log line of run() is written.
Cleanup ==
    /\ pc = "finally"
    /\ \E o \in (IF driver THEN QuitOutcomes ELSE IdleOutcomes) :
          /\ teardown_raised' = QuitRaises(o)
          /\ raised' = IF o = "ok" THEN raised ELSE QuitRaises(o)
          /\ interrupted' = (interrupted \/ QuitInterrupted(o))
    /\ quits' = IF driver THEN quits + 1 ELSE quits
    /\ cleaned' = TRUE
    /\ pc' = "done"
    /\ UNCHANGED <<site, now, driver, exc, partial, files, data>>
    /\ UNCHANGED <<lookupVars, reinfoVars>>

(* ------------------- registry dump: ReinfoScraper ---------------------- *)
\* The tr elements of table.gvRow on page p: RowOffset header and decoration
\* rows, then the data rows.
TableOf(p) ==
    [i \in 1..(RowOffset + MaxRows) |->
        IF i <= RowOffset THEN [page |-> p, row |-> 0]
                          ELSE [page |-> p, row |-> i - RowOffset]]

\* table.find_elements("tr")[3:]
DataRows(t) == SubSeq(t, RowOffset + 1, Len(t))

\* has_next_page(): the next control's disabled attribute is None. The site
\* disables the control on its last page.
NextControlDisabled == shown >= num_pages

\* A loop condition driven by the count read from lblhasta.
HasNextPage_ByTotal == page_count < total_pages

HasNextPage == ~NextControlDisabled

\* navigate_to_page(): load the site, set the filters, search, read lblhasta.
\* The click on btnBuscar shows the first page of results; what fails or is
\* interrupted after it ("error_late", "interrupt_late": the log line, the
\* wait for lblhasta, its reading) leaves that page shown and total_pages
\* unread.
NavigateToPage ==
    /\ pc = "navigate"
    /\ \E o \in {"ok", "error", "error_late", "interrupt", "interrupt_late"} :
          CASE o = "ok" -> /\ shown' = 1
                           /\ total_pages' = lblhasta
                           /\ pc' = "first_page"
                           /\ UNCHANGED <<exc, interrupted>>
            [] o = "error" -> /\ Raise("WebDriverException")
                              /\ UNCHANGED <<shown, total_pages>>
            [] o = "error_late" -> /\ Raise("WebDriverException")
                                   /\ shown' = 1
                                   /\ UNCHANGED total_pages
            [] o = "interrupt_late" -> /\ Raise("KeyboardInterrupt")
                                       /\ shown' = 1
                                       /\ UNCHANGED total_pages
            [] OTHER -> /\ Raise("KeyboardInterrupt")
                        /\ UNCHANGED <<shown, total_pages>>
    /\ UNCHANGED <<site, now, driver, quits, cleaned, teardown_raised, partial, raised, files, data>>
    /\ UNCHANGED <<num_pages, lblhasta, page_count, clicks, parsed>>
    /\ UNCHANGED lookupVars

\* process_current_page(): the table is found and every data row appended,
\* or the table is absent and find_element raises, or the reading of a row
\* raises ("error_row": the row went stale), or the operator interrupts it:
\* before the first row is read, or between two rows, or after the last. The
\* rows are appended one at a time, so the rows read until then stay
\* appended.
ProcessCurrentPage(next) ==
    /\ \E o \in {"ok", "error", "error_row", "interrupt"} :
          CASE o = "ok" -> /\ data' = data \o DataRows(TableOf(shown))
                           /\ parsed' = Append(parsed, shown)
                           /\ pc' = next
                           /\ UNCHANGED <<exc, interrupted>>
            [] o = "error" -> /\ Raise("NoSuchElementException")
                              /\ UNCHANGED <<data, parsed>>
            [] o = "error_row" ->
                        /\ \E read \in 0..(Len(DataRows(TableOf(shown))) - 1) :
                              data' = data \o SubSeq(DataRows(TableOf(shown)), 1, read)
                        /\ Raise("StaleElementReferenceException")
                        /\ UNCHANGED parsed
            [] OTHER -> /\ \E read \in 0..Len(DataRows(TableOf(shown))) :
                              data' = data \o SubSeq(DataRows(TableOf(shown)), 1, read)
                        /\ Raise("KeyboardInterrupt")
                        /\ UNCHANGED parsed
    /\ UNCHANGED <<site, now, driver, quits, cleaned, teardown_raised, partial, raised, files>>
    /\ UNCHANGED <<num_pages, lblhasta, total_pages, shown, page_count, clicks>>
    /\ UNCHANGED lookupVars

\* run(), line 313: the first page is processed before scrape_all_pages().
RunProcessFirstPage ==
    /\ pc = "first_page"
    /\ ProcessCurrentPage("loop_check")

\* scrape_all_pages(), lines 236-237: the loop condition.
LoopCheck ==
    /\ pc = "loop_check"
    /\ \E o \in {"ok", "error", "interrupt"} :
          CASE o = "ok" -> /\ pc' = IF HasNextPage THEN "loop_process" ELSE "save"
                           /\ UNCHANGED <<exc, interrupted>>
            [] o = "error" -> Raise("NoSuchElementException")
            [] OTHER -> Raise("KeyboardInterrupt")
    /\ UNCHANGED <<site, now, driver, quits, cleaned, teardown_raised, partial, raised, files, data>>
    /\ UNCHANGED <<reinfoVars, lookupVars>>

\* scrape_all_pages(), line 244: the loop body processes the page shown.
LoopProcess ==
    /\ pc = "loop_process"
    /\ ProcessCurrentPage("loop_click")

\* scrape_all_pages(), lines 246-253: find the next control, click it, sleep
\* two seconds, count the page. The site shows the following page after a
\* click on an enabled control.
LoopClick ==
    /\ pc = "loop_click"
    /\ \E o \in {"ok", "error", "interrupt_find", "interrupt"} :
          CASE o = "ok" -> /\ shown' = IF NextControlDisabled THEN shown ELSE shown + 1
                           /\ clicks' = clicks + 1
                           /\ page_count' = page_count + 1
                           /\ pc' = "loop_check"
                           /\ UNCHANGED <<exc, interrupted>>
            [] o = "error" -> /\ Raise("NoSuchElementException")
                              /\ UNCHANGED <<shown, clicks, page_count>>
            [] o = "interrupt_find" -> \* the interrupt arrives in find_element
                        /\ Raise("KeyboardInterrupt")
                        /\ UNCHANGED <<shown, clicks, page_count>>
            [] OTHER -> \* the interrupt arrives in time.sleep(2), after the click
                        /\ shown' = IF NextControlDisabled THEN shown ELSE shown + 1
                        /\ clicks' = clicks + 1
                        /\ Raise("KeyboardInterrupt")
                        /\ UNCHANGED page_count
    /\ UNCHANGED <<site, now, driver, quits, cleaned, teardown_raised, partial, raised, files, data>>
    /\ UNCHANGED <<num_pages, lblhasta, total_pages, parsed>>
    /\ UNCHANGED lookupVars

(* --------------- lookup strategies: the network side ------------------- *)
\* The performance-log entries the page of attempt k can produce. The
\* request identifier of attempt k's background call is k; url says whether
\* the request URL contains "deudoresPorDocumento"; body says what
\* Network.getResponseBody and json.loads make of the response: "json" a
\* non-empty document, "empty" a document that is falsy in Python ([], {},
\* null), "bad" a body that cannot be fetched or parsed.
Entries(k) ==
    {[method |-> "Network.requestWillBeSent", id |-> k, url |-> u, body |-> "none"] :
        u \in BOOLEAN}
    \cup {[method |-> "Network.responseReceived", id |-> k, url |-> FALSE, body |-> b] :
        b \in {"json", "empty", "bad"}}

\* extract_dni_info's locals before the loop: obj_request_id = None,
\* dni_data = None.
NoCorrelation == [obj_request_id |-> 0, dni_data |-> [truthy |-> FALSE, from |-> 0]]

\* An interception that remembers the identifier of every request.
InterceptRequest_Any(st, e) == [st EXCEPT !.obj_request_id = e.id]

\* intercept_request(), lines 183-186.
InterceptRequest(st, e) ==
    IF e.url THEN [st EXCEPT !.obj_request_id = e.id] ELSE st

\* A process_response that takes whatever body comes as the data.
ProcessResponse_NoParseCheck(st, e) ==
    IF e.id = st.obj_request_id
    THEN [st EXCEPT !.dni_data = [truthy |-> e.body # "empty", from |-> e.id]]
    ELSE st

\* process_response(), lines 188-197: a failure to fetch or parse the body is
\* logged and leaves dni_data as it was.
ProcessResponse(st, e) ==
    IF e.id = st.obj_request_id /\ e.body # "bad"
    THEN [st EXCEPT !.dni_data = [truthy |-> e.body = "json", from |-> e.id]]
    ELSE st

RECURSIVE CorrelateFrom(_, _)
\* The loop over the drained log, lines 205-215.
CorrelateFrom(st, entries) ==
    IF entries = <<>> THEN st
    ELSE LET e == Head(entries)
             nxt == IF e.method = "Network.requestWillBeSent"
                    THEN InterceptRequest(st, e)
                    ELSE ProcessResponse(st, e)
         IN CorrelateFrom(nxt, Tail(entries))

Correlate(entries) == CorrelateFrom(NoCorrelation, entries).dni_data

\* cleanup_network_listeners(), lines 81-90. With the flag set it clears the
\* interception patterns, disables the network domain and resets the flag;
\* an Exception of either command is swallowed and leaves the flag set. An
\* interrupt of either command is not caught; the second command comes after
\* the patterns were cleared. The log line of line 88 comes after the flag
\* was reset: an interrupt in it ("interrupt_log") leaves with both commands
\* done and the flag cleared.
DisarmOutcomes ==
    IF network_enabled
    THEN {"ok", "fail_patterns", "fail_disable", "interrupt", "interrupt_disable",
          "interrupt_log"}
    ELSE {"ok"}

DisarmInterrupted(o) == o \in {"interrupt", "interrupt_disable", "interrupt_log"}

\* The outcomes in which both commands returned.
DisarmDone(o) == o \in {"ok", "interrupt_log"}

DisarmedNet(o) ==
    IF ~network_enabled THEN net
    ELSE CASE DisarmDone(o) -> [enabled |-> FALSE, patterns |-> FALSE]
           [] o \in {"fail_disable", "interrupt_disable"} ->
                [net EXCEPT !.patterns = FALSE]
           [] OTHER -> net

\* A disarm that resets the flag whatever became of its commands.
DisarmedFlag_Always(o) == FALSE

DisarmedFlag(o) == IF DisarmDone(o) THEN FALSE ELSE network_enabled

(* --------------- lookup strategies: the batch loop --------------------- *)
\* Ledger rows built in the reverse of the input order.
NewRows_Reversed(keys) ==
    [i \in 1..Len(keys) |-> [dni |-> keys[Len(keys) + 1 - i], result |-> ""]]

\* pd.DataFrame({"dni": csv_data["dni"], "result": ""})
NewRows(keys) == [i \in 1..Len(keys) |-> [dni |-> keys[i], result |-> ""]]

\* load_dni_data(), line 162: the new rows go after the rows already there.
ConcatRows(ledger, keys) == ledger \o NewRows(keys)

\* A status write that overwrites the rows before the current one too.
SetResult_UpTo(ledger, i, status) ==
    [j \in DOMAIN ledger |-> IF j <= i THEN [ledger[j] EXCEPT !.result = status]
                                       ELSE ledger[j]]

\* A status write that is off by one: it lands on the row after the current
\* key's, when there is one.
SetResult_NextRow(ledger, i, status) ==
    IF i + 1 \in DOMAIN ledger THEN [ledger EXCEPT ![i + 1].result = status]
                               ELSE ledger

\* dni_results.iloc[index, result] = status
SetResult(ledger, i, status) == [ledger EXCEPT ![i].result = status]

\* An except clause that catches the KeyboardInterrupt too.
CaughtByScrape_All(e) == TRUE

\* scrape(), line 242: except Exception. A KeyboardInterrupt is not caught.
CaughtByScrape(e) == IsException(e)

\* A loop body without the try/except: every exception goes on to run().
KeyFails_Abort(e) ==
    /\ Raise(e)
    /\ log' = <<>>
    /\ inflight' = 0
    /\ UNCHANGED <<dni_results, index, caught>>

\* An exception e leaves the attempt of the current key. scrape's except
\* clause (lines 242-245, 341-344 in Sunat) marks the key "fail", writes a
\* log line and continues; an interrupt in that log line goes on to run()
\* with the key marked and the loop not advanced. An e the clause does not
\* catch goes on to run(). Once control has left the batch loop the browser's
\* log is never read again (run() only saves and quits): the model stops
\* tracking it.
KeyFails(e) ==
    IF CaughtByScrape(e)
    THEN /\ dni_results' = SetResult(dni_results, index, "fail")
         /\ caught' = e
         /\ \E logged \in BOOLEAN :
               IF logged
               THEN /\ index' = index + 1
                    /\ pc' = "loop"
                    /\ interrupted' = (interrupted \/ e = "KeyboardInterrupt")
                    /\ UNCHANGED <<exc, log, inflight>>
               ELSE /\ Raise("KeyboardInterrupt")
                    /\ log' = <<>>
                    /\ inflight' = 0
                    /\ UNCHANGED index
    ELSE /\ Raise(e)
         /\ log' = <<>>
         /\ inflight' = 0
         /\ UNCHANGED <<dni_results, index, caught>>

\* A loop that goes on to the next key without writing the status.
KeySucceeds_Unmarked ==
    /\ index' = index + 1
    /\ pc' = "loop"
    /\ UNCHANGED <<dni_results, exc, interrupted, caught>>

\* scrape(), line 241 (340 in Sunat).
KeySucceeds ==
    /\ dni_results' = SetResult(dni_results, index, "success")
    /\ index' = index + 1
    /\ pc' = "loop"
    /\ UNCHANGED <<exc, interrupted, caught>>

CurrentKey == csv_data.keys[index]

\* Once control has left the batch loop the browser's log is never read
\* again (run() only saves and quits): the model stops tracking it.
BrowserLeft == log' = <<>> /\ inflight' = 0
BrowserKept == UNCHANGED <<log, inflight>>

\* The entries the loaded page may have logged since the program last read
\* the log: any of its entries, as many as it may still produce. Only the
\* reads of the log (perform_complete_cleanup line 70, extract_dni_info line
\* 203) and the unloading of the page tell when an entry arrived.
Arrivals ==
    {new \in SeqsUpTo(Entries(page), inflight) : Len(log) + Len(new) <= MaxLog}

\* load_dni_data(), lines 158-166: read_csv reads the file or raises, as the
\* file is readable or not; an interrupt of read_csv is not an Exception, so
\* the except clause leaves csv_data as it was. The log line of line 163
\* comes after the rows were appended: an interrupt in it ("interrupt_log")
\* leaves with the keys loaded and their rows in the ledger. The log line of
\* the except clause comes after csv_data was reset ("interrupt_error_log").
LoadOutcomes ==
    IF csv_file.readable THEN {"ok", "interrupt", "interrupt_log"}
                         ELSE {"error", "interrupt", "interrupt_error_log"}

\* scrape() up to the loop: load_dni_data(self.csv_path) and the branch on
\* csv_data. Without a path nothing is loaded; Redjum then does nothing,
\* Sunat raises ValueError.
ScrapeLoad ==
    /\ pc = "load"
    /\ IF ~csv_path
       THEN /\ IF site = "redjum" THEN pc' = "save" /\ UNCHANGED <<exc, interrupted>>
                                  ELSE Raise("ValueError")
            /\ UNCHANGED <<csv_data, dni_results, index>>
       ELSE \E o \in LoadOutcomes :
          CASE o = "interrupt" ->
                 /\ Raise("KeyboardInterrupt")
                 /\ UNCHANGED <<csv_data, dni_results, index>>
            [] o = "ok" ->
                 /\ csv_data' = [loaded |-> TRUE, keys |-> csv_file.keys]
                 /\ dni_results' = ConcatRows(dni_results, csv_file.keys)
                 /\ index' = 1
                 /\ pc' = "loop"
                 /\ UNCHANGED <<exc, interrupted>>
            [] o = "interrupt_log" ->
                 /\ csv_data' = [loaded |-> TRUE, keys |-> csv_file.keys]
                 /\ dni_results' = ConcatRows(dni_results, csv_file.keys)
                 /\ Raise("KeyboardInterrupt")
                 /\ UNCHANGED index
            [] o = "interrupt_error_log" ->
                 /\ csv_data' = [loaded |-> FALSE, keys |-> <<>>]
                 /\ Raise("KeyboardInterrupt")
                 /\ UNCHANGED <<dni_results, index>>
            [] OTHER ->
                 /\ csv_data' = [loaded |-> FALSE, keys |-> <<>>]
                 /\ Raise("LoadError")
                 /\ UNCHANGED <<dni_results, index>>
    /\ UNCHANGED <<site, now, driver, quits, cleaned, teardown_raised, partial, raised, files, data>>
    /\ UNCHANGED <<csv_path, csv_file, attempted, network_enabled, net, log,
                   inflight, page, keyexc, devtools, prompts, snapshot, caught, dom>>
    /\ UNCHANGED reinfoVars

\* for index, row in self.csv_data.iterrows(): the next key's attempt starts,
\* or the loop is over and run() goes on to save_results().
LoopNext ==
    /\ pc = "loop"
    /\ IF index <= Len(csv_data.keys)
       THEN /\ attempted' = Append(attempted, index)
            /\ prompts' = 0
            /\ caught' = "none"
            /\ snapshot' = data
            /\ pc' = "nav_disarm"
            /\ BrowserKept
       ELSE /\ pc' = "save"
            /\ BrowserLeft
            /\ caught' = "none"
            /\ UNCHANGED <<attempted, prompts, snapshot>>
    /\ UNCHANGED <<site, now, driver, quits, cleaned, teardown_raised, exc, interrupted, partial, raised, files, data>>
    /\ UNCHANGED <<csv_path, csv_file, csv_data, dni_results, index,
                   network_enabled, net, page, keyexc, devtools, dom>>
    /\ UNCHANGED reinfoVars

\* What a step of the attempt leaves alone besides the variables it names.
AttemptFrame ==
    /\ UNCHANGED <<site, now, driver, quits, cleaned, teardown_raised, partial, raised, files>>
    /\ UNCHANGED <<csv_path, csv_file, csv_data, attempted, snapshot, dom>>
    /\ UNCHANGED reinfoVars

\* perform_complete_cleanup(), line 38: cleanup_network_listeners().
NavDisarm ==
    /\ pc = "nav_disarm"
    /\ \E o \in DisarmOutcomes :
          /\ net' = DisarmedNet(o)
          /\ network_enabled' = DisarmedFlag(o)
          /\ IF DisarmInterrupted(o)
             THEN KeyFails("KeyboardInterrupt")
             ELSE /\ pc' = "nav_cleanup"
                  /\ BrowserKept
                  /\ UNCHANGED <<exc, interrupted, dni_results, index, caught>>
    /\ UNCHANGED <<data, page, keyexc, devtools>>
    /\ UNCHANGED prompts
    /\ AttemptFrame

\* perform_complete_cleanup(), lines 40-70: the cache, cookie, storage and
\* service-worker commands, then get_log("performance"), which empties the
\* log. An Exception of a command outside the inner try blocks ends the
\* cleanup at line 78 with the log unread.
NavCleanup ==
    /\ pc = "nav_cleanup"
    /\ \E o \in {"ok", "error", "interrupt"} :
          CASE o = "ok" -> /\ \E new \in Arrivals : inflight' = inflight - Len(new)
                           /\ log' = <<>>
                           /\ pc' = "nav_blank"
                           /\ UNCHANGED <<exc, interrupted, dni_results, index, caught>>
            [] o = "error" -> /\ \E new \in Arrivals :
                                    /\ log' = log \o new
                                    /\ inflight' = inflight - Len(new)
                              /\ pc' = "nav_get"
                              /\ UNCHANGED <<exc, interrupted, dni_results, index, caught>>
            [] OTHER -> /\ KeyFails("KeyboardInterrupt")
    /\ UNCHANGED <<data, network_enabled, net, page, keyexc, devtools>>
    /\ UNCHANGED prompts
    /\ AttemptFrame

\* perform_complete_cleanup(), lines 71-75: get_log("browser") and
\* get("about:blank"), which unloads the page of the previous attempt.
NavBlank ==
    /\ pc = "nav_blank"
    /\ \E o \in {"ok", "error", "interrupt"} :
          CASE o = "ok" -> /\ page' = 0
                           /\ \E new \in Arrivals : log' = log \o new
                           /\ inflight' = 0
                           /\ pc' = "nav_get"
                           /\ UNCHANGED <<exc, interrupted, dni_results, index, caught>>
            [] o = "error" -> /\ \E new \in Arrivals :
                                    /\ log' = log \o new
                                    /\ inflight' = inflight - Len(new)
                              /\ pc' = "nav_get"
                              /\ UNCHANGED <<page, exc, interrupted, dni_results, index, caught>>
            [] OTHER -> /\ KeyFails("KeyboardInterrupt")
                        /\ UNCHANGED page
    /\ UNCHANGED <<data, network_enabled, net, keyexc, devtools>>
    /\ UNCHANGED prompts
    /\ AttemptFrame

\* navigate_to_page_with_data(), line 102: driver.get(target URL).
NavGet ==
    /\ pc = "nav_get"
    /\ \E o \in {"ok", "error", "interrupt"} :
          CASE o = "ok" -> /\ page' = index
                           /\ inflight' = 0
                           /\ pc' = "nav_form"
                           /\ UNCHANGED <<log, exc, interrupted, dni_results, index, caught>>
            [] o = "error" -> /\ KeyFails("WebDriverException")
                              /\ UNCHANGED page
            [] OTHER -> /\ KeyFails("KeyboardInterrupt")
                        /\ UNCHANGED page
    /\ UNCHANGED <<data, network_enabled, net, keyexc, devtools>>
    /\ UNCHANGED prompts
    /\ AttemptFrame

\* A navigation whose failure at the form ends the whole scrape.
NavForm_Fatal ==
    /\ pc = "nav_form"
    /\ \E o \in {"ok", "error", "interrupt"} :
          CASE o = "ok" -> /\ pc' = IF site = "redjum" THEN "nav_captcha" ELSE "nav_submit"
                           /\ BrowserKept
                           /\ UNCHANGED <<exc, interrupted, dni_results, index, caught>>
            [] o = "error" -> /\ Raise("NavigationError")
                              /\ BrowserKept
                              /\ UNCHANGED <<dni_results, index, caught>>
            [] OTHER -> KeyFails("KeyboardInterrupt")
    /\ UNCHANGED <<data, network_enabled, net, page, keyexc, devtools>>
    /\ UNCHANGED prompts
    /\ AttemptFrame

\* navigate_to_page_with_data(), lines 103-129 (98-109 in Sunat): wait for
\* the readiness control, find the form controls, type the key.
NavForm ==
    /\ pc = "nav_form"
    /\ \E o \in {"ok", "error", "interrupt"} :
          CASE o = "ok" -> /\ pc' = IF site = "redjum" THEN "nav_captcha" ELSE "nav_submit"
                           /\ BrowserKept
                           /\ UNCHANGED <<exc, interrupted, dni_results, index, caught>>
            [] o = "error" -> KeyFails("NavigationError")
            [] OTHER -> KeyFails("KeyboardInterrupt")
    /\ UNCHANGED <<data, network_enabled, net, page, keyexc, devtools>>
    /\ UNCHANGED prompts
    /\ AttemptFrame

\* A challenge step whose exception ends the whole scrape.
GetCaptchaSolution_Fatal ==
    /\ pc = "nav_captcha"
    /\ \E o \in {"ok", "error", "interrupt"} :
          CASE o = "ok" -> /\ pc' = "nav_submit"
                           /\ BrowserKept
                           /\ UNCHANGED <<exc, interrupted, dni_results, index, caught>>
            [] o = "error" -> /\ Raise("EOFError")
                              /\ BrowserKept
                              /\ UNCHANGED <<dni_results, index, caught>>
            [] OTHER -> KeyFails("KeyboardInterrupt")
    /\ prompts' = prompts + 1
    /\ UNCHANGED <<data, network_enabled, net, page, keyexc, devtools>>
    /\ AttemptFrame

\* A challenge step that asks the operator a second time before submitting.
GetCaptchaSolution_AsksTwice ==
    /\ pc = "nav_captcha"
    /\ \E o \in {"ok", "error", "interrupt"} :
          CASE o = "ok" -> /\ pc' = IF prompts = 0 THEN "nav_captcha" ELSE "nav_submit"
                           /\ BrowserKept
                           /\ UNCHANGED <<exc, interrupted, dni_results, index, caught>>
            [] o = "error" -> KeyFails("EOFError")
            [] OTHER -> KeyFails("KeyboardInterrupt")
    /\ prompts' = prompts + 1
    /\ UNCHANGED <<data, network_enabled, net, page, keyexc, devtools>>
    /\ AttemptFrame

\* get_captcha_solution(), lines 92-96: input() returns, raises EOFError or
\* is interrupted by the operator.
GetCaptchaSolution ==
    /\ pc = "nav_captcha"
    /\ \E o \in {"ok", "error", "interrupt"} :
          CASE o = "ok" -> /\ pc' = "nav_submit"
                           /\ BrowserKept
                           /\ UNCHANGED <<exc, interrupted, dni_results, index, caught>>
            [] o = "error" -> KeyFails("EOFError")
            [] OTHER -> KeyFails("KeyboardInterrupt")
    /\ prompts' = prompts + 1
    /\ UNCHANGED <<data, network_enabled, net, page, keyexc, devtools>>
    /\ AttemptFrame

\* navigate_to_page_with_data(), lines 132-138 (111-112 in Sunat): type the
\* solution and click the submit button. The page then issues its background
\* calls, which reach the performance log one by one, at most MaxStream of
\* them (Sunat never reads the log: its entries are left out).
NavSubmit ==
    /\ pc = "nav_submit"
    /\ \E o \in {"ok", "error", "interrupt"} :
          CASE o = "ok" -> /\ inflight' = IF site = "redjum" THEN MaxStream ELSE 0
                           /\ pc' = "settle"
                           /\ UNCHANGED <<log, exc, interrupted, dni_results, index, caught>>
            [] o = "error" -> KeyFails("NavigationError")
            [] OTHER -> KeyFails("KeyboardInterrupt")
    /\ UNCHANGED <<data, network_enabled, net, page, keyexc, devtools>>
    /\ UNCHANGED prompts
    /\ AttemptFrame

\* scrape(), line 238: time.sleep(3).
Settle ==
    /\ pc = "settle"
    /\ \E o \in {"ok", "interrupt"} :
          CASE o = "ok" -> /\ pc' = IF site = "redjum" THEN "ext_arm" ELSE "ext_dom"
                           /\ BrowserKept
                           /\ UNCHANGED <<exc, interrupted, dni_results, index, caught>>
            [] OTHER -> KeyFails("KeyboardInterrupt")
    /\ UNCHANGED <<data, network_enabled, net, page, keyexc, devtools>>
    /\ UNCHANGED prompts
    /\ AttemptFrame

\* extract_dni_info(), lines 176-201: Network.enable unless the flag is set,
\* then Network.setRequestInterception with the URL pattern. The second
\* command fails or is interrupted after the first succeeded and the flag
\* was set.
ArmOutcomes ==
    {"ok", "fail_patterns", "interrupt_patterns"}
    \cup (IF network_enabled THEN {} ELSE {"fail_enable", "interrupt_enable"})

ExtArm ==
    /\ pc = "ext_arm"
    /\ \E o \in ArmOutcomes :
          /\ network_enabled' =
                IF o \in {"ok", "fail_patterns", "interrupt_patterns"} THEN TRUE
                ELSE network_enabled
          /\ net' = CASE o = "ok" ->
                           [enabled |-> net.enabled \/ ~network_enabled, patterns |-> TRUE]
                      [] o \in {"fail_patterns", "interrupt_patterns"} ->
                           [net EXCEPT !.enabled = net.enabled \/ ~network_enabled]
                      [] OTHER -> net
          /\ keyexc' = CASE o = "ok" -> "none"
                         [] o \in {"interrupt_enable", "interrupt_patterns"} ->
                              "KeyboardInterrupt"
                         [] OTHER -> "WebDriverException"
          /\ pc' = IF o = "ok" THEN "ext_read" ELSE "ext_finally"
    /\ UNCHANGED <<exc, interrupted, data, dni_results, index, log, inflight, page,
                   devtools, caught>>
    /\ UNCHANGED prompts
    /\ AttemptFrame

\* What get_log("performance") and the loop over its entries may do: run to
\* the end, fail or be interrupted in get_log with the log unread, or be
\* interrupted after get_log emptied the log (in the loop, as inside
\* Network.getResponseBody, whose interrupt "except Exception" lets through).
ReadOutcomes == {"ok", "error", "interrupt", "interrupt_late"}

\* An extraction that stores whatever it correlated before it tests it.
ExtRead_StoresBeforeCheck ==
    /\ pc = "ext_read"
    /\ \E o \in ReadOutcomes :
          CASE o = "ok" ->
                 \E new \in Arrivals :
                    LET dni_data == Correlate(log \o new)
                    IN /\ devtools' = log \o new
                       /\ log' = <<>>
                       /\ inflight' = inflight - Len(new)
                       /\ data' = Write(data, CurrentKey, dni_data)
                       /\ keyexc' = IF ~dni_data.truthy THEN "NoDataException" ELSE "none"
            [] o = "interrupt_late" ->
                 \E new \in Arrivals :
                    /\ devtools' = log \o new
                    /\ log' = <<>>
                    /\ inflight' = inflight - Len(new)
                    /\ keyexc' = "KeyboardInterrupt"
                    /\ UNCHANGED data
            [] o = "error" -> /\ keyexc' = "WebDriverException"
                              /\ UNCHANGED <<log, inflight, data, devtools>>
            [] OTHER -> /\ keyexc' = "KeyboardInterrupt"
                        /\ UNCHANGED <<log, inflight, data, devtools>>
    /\ pc' = "ext_finally"
    /\ UNCHANGED <<exc, interrupted, dni_results, index, network_enabled, net, page,
                   caught>>
    /\ UNCHANGED prompts
    /\ AttemptFrame

\* extract_dni_info(), lines 203-221: read the performance log, correlate,
\* raise when no data was recovered, else store it under str(dni).
ExtRead ==
    /\ pc = "ext_read"
    /\ \E o \in ReadOutcomes :
          CASE o = "ok" ->
                 \E new \in Arrivals :
                    LET dni_data == Correlate(log \o new)
                    IN /\ devtools' = log \o new
                       /\ log' = <<>>
                       /\ inflight' = inflight - Len(new)
                       /\ IF ~dni_data.truthy
                          THEN keyexc' = "NoDataException" /\ UNCHANGED data
                          ELSE keyexc' = "none" /\ data' = Write(data, CurrentKey, dni_data)
            [] o = "interrupt_late" ->
                 \E new \in Arrivals :
                    /\ devtools' = log \o new
                    /\ log' = <<>>
                    /\ inflight' = inflight - Len(new)
                    /\ keyexc' = "KeyboardInterrupt"
                    /\ UNCHANGED data
            [] o = "error" -> /\ keyexc' = "WebDriverException"
                              /\ UNCHANGED <<log, inflight, data, devtools>>
            [] OTHER -> /\ keyexc' = "KeyboardInterrupt"
                        /\ UNCHANGED <<log, inflight, data, devtools>>
    /\ pc' = "ext_finally"
    /\ UNCHANGED <<exc, interrupted, dni_results, index, network_enabled, net, page,
                   caught>>
    /\ UNCHANGED prompts
    /\ AttemptFrame

\* extract_dni_info(), lines 223-227, and scrape(), lines 241-245: the
\* finally clause disarms, then the pending exception (or the interrupt that
\* cut the disarming) leaves the function, or the key is marked "success".
ExtFinally ==
    /\ pc = "ext_finally"
    /\ \E o \in DisarmOutcomes :
          /\ net' = DisarmedNet(o)
          /\ network_enabled' = DisarmedFlag(o)
          /\ LET e == IF DisarmInterrupted(o) THEN "KeyboardInterrupt" ELSE keyexc
             IN IF e = "none" THEN KeySucceeds /\ BrowserKept ELSE KeyFails(e)
    /\ keyexc' = "none"
    /\ devtools' = <<>>
    /\ UNCHANGED <<data, page>>
    /\ UNCHANGED prompts
    /\ AttemptFrame

\* What extract_ruc_info() may raise: the wait for the container times out
\* or raises a WebDriverException of its own, or line 303 raises (len() of
\* None).
ExtractionErrors == {"TimeoutException", "WebDriverException", "TypeError"}

\* SunatScraper.extract_ruc_info() and scrape(), lines 339-344: wait for the
\* result container, read the fields, store them under the key. The two log
\* lines after the store (lines 321-322) may be interrupted with the record
\* already in self.data ("interrupt_log").
ExtractRucInfo ==
    /\ pc = "ext_dom"
    /\ \E o \in {"ok", "error", "interrupt", "interrupt_log"} :
          CASE o = "ok" -> /\ data' = Write(data, CurrentKey, [truthy |-> TRUE, from |-> index])
                           /\ KeySucceeds
                           /\ BrowserKept
            [] o = "interrupt_log" ->
                           /\ data' = Write(data, CurrentKey, [truthy |-> TRUE, from |-> index])
                           /\ KeyFails("KeyboardInterrupt")
            [] o = "error" -> /\ \E e \in ExtractionErrors : KeyFails(e)
                              /\ UNCHANGED data
            [] OTHER -> /\ KeyFails("KeyboardInterrupt")
                        /\ UNCHANGED data
    /\ UNCHANGED <<network_enabled, net, page, keyexc, devtools>>
    /\ UNCHANGED prompts
    /\ AttemptFrame

(* --------------------------- specifications ---------------------------- *)
InitRun ==
    /\ pc = "setup"
    /\ driver = FALSE
    /\ quits = 0
    /\ cleaned = FALSE
    /\ teardown_raised = "none"
    /\ exc = "none"
    /\ partial = "none"
    /\ raised = "none"
    /\ interrupted = FALSE
    /\ files = <<>>
    /\ data = <<>>

InitLookupIdle ==
    /\ csv_path = FALSE
    /\ csv_file = [readable |-> FALSE, keys |-> <<>>]
    /\ csv_data = [loaded |-> FALSE, keys |-> <<>>]
    /\ dni_results = <<>>
    /\ index = 0
    /\ attempted = <<>>
    /\ network_enabled = FALSE
    /\ net = [enabled |-> FALSE, patterns |-> FALSE]
    /\ log = <<>>
    /\ inflight = 0
    /\ page = 0
    /\ keyexc = "none"
    /\ devtools = <<>>
    /\ prompts = 0
    /\ snapshot = <<>>
    /\ caught = "none"
    /\ dom = <<>>

InitReinfo ==
    /\ site = "reinfo"
    /\ now = 1
    /\ InitRun
    /\ InitLookupIdle
    /\ num_pages \in 1..MaxPages
    /\ lblhasta \in 0..(MaxPages + 1)
    /\ total_pages = 0
    /\ shown = 0
    /\ page_count = 1
    /\ clicks = 0
    /\ parsed = <<>>

NextReinfo ==
    \/ SetupDriver
    \/ NavigateToPage
    \/ RunProcessFirstPage
    \/ LoopCheck
    \/ LoopProcess
    \/ LoopClick
    \/ SaveResults
    \/ SavePartialResults
    \/ Cleanup

SpecReinfo == InitReinfo /\ [][NextReinfo]_vars

InitReinfoIdle ==
    /\ num_pages = 0
    /\ lblhasta = 0
    /\ total_pages = 0
    /\ shown = 0
    /\ page_count = 1
    /\ clicks = 0
    /\ parsed = <<>>

\* A lookup scraper as constructed, and the CSV file it is pointed at.
Init ==
    /\ site \in {"redjum", "sunat"}
    /\ now = 1
    /\ InitRun
    /\ csv_path \in BOOLEAN
    /\ csv_file \in [readable : BOOLEAN, keys : InputKeys]
    /\ csv_path = FALSE => csv_file = [readable |-> FALSE, keys |-> <<>>]
    /\ csv_file.readable = FALSE => csv_file.keys = <<>>
    /\ csv_data = [loaded |-> FALSE, keys |-> <<>>]
    /\ dni_results = <<>>
    /\ index = 0
    /\ attempted = <<>>
    /\ network_enabled = FALSE
    /\ net = [enabled |-> FALSE, patterns |-> FALSE]
    /\ log = <<>>
    /\ inflight = 0
    /\ page = 0
    /\ keyexc = "none"
    /\ devtools = <<>>
    /\ prompts = 0
    /\ snapshot = <<>>
    /\ caught = "none"
    /\ dom = <<>>
    /\ InitReinfoIdle

Next ==
    \/ SetupDriver
    \/ ScrapeLoad
    \/ LoopNext
    \/ NavDisarm
    \/ NavCleanup
    \/ NavBlank
    \/ NavGet
    \/ NavForm
    \/ GetCaptchaSolution
    \/ NavSubmit
    \/ Settle
    \/ ExtArm
    \/ ExtRead
    \/ ExtFinally
    \/ ExtractRucInfo
    \/ SaveResults
    \/ SavePartialResults
    \/ Cleanup

Spec == Init /\ [][Next]_vars

(* ----- the correlation step alone, over windows with several requests ---- *)
\* The entries a window may hold when the page issues several background
\* calls, each under its own request identifier.
WindowEntries == UNION {Entries(k) : k \in 1..MaxIds}

\* A Redjum session about to read the performance log (line 203) for its
\* only key: the driver runs, the key is loaded and pending, the page is
\* submitted, the interception is armed, and the log holds any window.
InitCorrelate ==
    /\ site = "redjum"
    /\ now = 1
    /\ pc = "ext_read"
    /\ driver = TRUE
    /\ quits = 0
    /\ cleaned = FALSE
    /\ teardown_raised = "none"
    /\ exc = "none"
    /\ partial = "none"
    /\ raised = "none"
    /\ interrupted = FALSE
    /\ files = <<>>
    /\ data = <<>>
    /\ csv_path = TRUE
    /\ csv_file = [readable |-> TRUE, keys |-> <<"A">>]
    /\ csv_data = [loaded |-> TRUE, keys |-> <<"A">>]
    /\ dni_results = NewRows(<<"A">>)
    /\ index = 1
    /\ attempted = <<1>>
    /\ network_enabled = TRUE
    /\ net = [enabled |-> TRUE, patterns |-> TRUE]
    /\ log \in SeqsUpTo(WindowEntries, MaxLog)
    /\ inflight = 0
    /\ page = 1
    /\ keyexc = "none"
    /\ devtools = <<>>
    /\ prompts = 1
    /\ snapshot = <<>>
    /\ caught = "none"
    /\ dom = <<>>
    /\ InitReinfoIdle

NextCorrelate ==
    \/ ExtRead
    \/ ExtFinally

SpecCorrelate == InitCorrelate /\ [][NextCorrelate]_vars

(* ------------- save_results() called again after run() ----------------- *)
\* The caller of run() calls save_results() with its default paths once
\* run() has returned: the dump and the ledger are written again from
\* self.data and self.dni_results; an exception of either write leaves
\* save_results and reaches the caller.
CallSaveResults ==
    /\ pc \in {"done", "resaved"}
    /\ \E o \in SaveOutcomes :
          /\ \E k \in SaveCuts(o) : files' = SaveInto(FullDump(site), FullLedger(site), o, k)
          /\ pc' = IF o = "ok" THEN "resaved" ELSE "resave_failed"
    /\ UNCHANGED <<site, now, driver, quits, cleaned, teardown_raised, exc, partial, raised, interrupted, data>>
    /\ UNCHANGED <<lookupVars, reinfoVars>>

NextResave ==
    \/ Next
    \/ CallSaveResults

SpecResave == Init /\ [][NextResave]_vars

(* --------- the DOM lookup strategy, field by field (Sunat) ------------- *)
\* What get_field_data returns when find_element (or the read of its text)
\* raises.
Null == "<None>"

\* The texts an element may show: a blank text, a text, and the same text
\* followed by a blank.
Texts == {" ", "a", "a "}

\* str.strip() on the texts of the pages.
Strip(t) ==
    CASE t = " " -> ""
      [] t = "a " -> "a"
      [] t = " text " -> "text"
      [] OTHER -> t

\* len() of a stripped text.
TextLen(t) == CASE t = "" -> 0 [] t = "a" -> 1 [] OTHER -> 4

\* Python's truth value of what get_field_data returned.
Truthy(t) == t # Null /\ t # ""

\* The selectors extract_ruc_info reads, named by the path below
\* "div.list-group": the child's position, then the element in it.
\* Those whose text is compared or measured:
TextSelectors == {"10/p", "9/2/p", "11/td", "10/td"}
\* and those whose text is only copied:
PlainSelectors ==
    {"1/col", "2/p", "3/p", "4/p", "5/2/p", "5/4/p", "4/4/p", "6/p", "8/p", "7/p",
     "9/4/p", "8/4/p", "14/p", "15/p"}

Selectors == TextSelectors \cup PlainSelectors

\* The result pages: the main container is there or not; with it, each
\* compared element is missing or shows a text, and of the other elements all
\* but at most MaxOdd are there, or all but at most MaxOdd are missing.
Pages ==
    LET few == {S \in SUBSET PlainSelectors : Cardinality(S) <= MaxOdd}
        missing == few \cup {PlainSelectors \ S : S \in few}
    IN {[container |-> FALSE, text |-> [s \in Selectors |-> Null]]}
       \cup {[container |-> TRUE,
              text |-> [s \in Selectors |->
                          IF s \in TextSelectors THEN t[s]
                          ELSE IF s \in m THEN Null ELSE " text "]] :
                t \in [TextSelectors -> Texts \cup {Null}], m \in missing}

\* The calls of get_field_data in extract_ruc_info, each named by the value
\* it is read for and its selector, in the order of lines 173, 179, 185, 191,
\* 198, 205, 211, 218, 226, 234, 241, 247, 253, 260, 266, 273, 281, 291, 297,
\* 307 and 313. The elements "3/p", "9/2/p" and "10/td" are read at two
\* places each.
ReadSites ==
    {<<"ruc_nombre", "1/col">>, <<"tipo_contribuyente", "2/p">>,
     <<"tipo_documento", "3/p">>,
     <<"nombre_comercial", "4/p">>, <<"nombre_comercial", "3/p">>,
     <<"fecha_inscripcion", "5/2/p">>,
     <<"fecha_inicio_actividades", "5/4/p">>, <<"fecha_inicio_actividades", "4/4/p">>,
     <<"estado", "6/p">>,
     <<"domicilio", "8/p">>, <<"domicilio", "7/p">>,
     <<"sistema_emision", "9/2/p">>,
     <<"actividad_comercio_exterior", "9/4/p">>,
     <<"actividad_comercio_exterior", "8/4/p">>,
     <<"sistema_contabilidad", "10/p">>, <<"sistema_contabilidad", "9/2/p">>,
     <<"actividades_economicas", "11/td">>, <<"actividades_economicas", "10/td">>,
     <<"fallback", "10/td">>,
     <<"emisor_electronico_desde", "14/p">>,
     <<"comprobantes_electronicos", "15/p">>}

RECURSIVE SitesUpTo(_)
\* The sets of at most n calls.
SitesUpTo(n) ==
    IF n = 0 THEN {{}}
    ELSE LET fewer == SitesUpTo(n - 1)
         IN fewer \cup {L \cup {call} : L \in fewer, call \in ReadSites}

\* The reads that raise although the element is on the page (the element is
\* not rendered yet, or went stale between find_element and .text): any of
\* the calls, at most MaxLost of them in one extraction.
Losses == SitesUpTo(MaxLost)

\* get_field_data(), lines 142-155: the element's text without the blanks
\* around it, or None when find_element or the read of the text raises.
GetFieldData(d, css_selector, fails) ==
    IF fails \/ d[css_selector] = Null THEN Null ELSE Strip(d[css_selector])

\* The read of css_selector for the value named field, in an extraction
\* whose failing reads are lost.
ReadField(d, lost, field, css_selector) ==
    GetFieldData(d, css_selector, <<field, css_selector>> \in lost)

\* A first selector with its fallback: the first is read once, and the
\* fallback is read when the first returned None.
WithFallback(d, lost, field, first, second) ==
    LET value == ReadField(d, lost, field, first)
    IN IF value = Null THEN ReadField(d, lost, field, second) ELSE value

FieldNames ==
    {"ruc_nombre", "tipo_contribuyente", "tipo_documento", "nombre_comercial",
     "fecha_inscripcion", "fecha_inicio_actividades", "estado", "domicilio",
     "sistema_emision", "actividad_comercio_exterior", "sistema_contabilidad",
     "actividades_economicas", "emisor_electronico_desde",
     "comprobantes_electronicos"}

\* extract_ruc_info(), lines 168-318, on the page d with the failing reads
\* lost: the fields it collects, and whether line 303 raised (len() of None:
\* the activities are None and the fallback read returned a text) before
\* they were stored.
ExtractFields(d, lost) ==
    LET sistema_contabilidad ==
            WithFallback(d, lost, "sistema_contabilidad", "10/p", "9/2/p")
        first == ReadField(d, lost, "actividades_economicas", "11/td")
        actividades == IF first = Null \/ first = sistema_contabilidad
                       THEN ReadField(d, lost, "actividades_economicas", "10/td")
                       ELSE first
        fallback == ReadField(d, lost, "fallback", "10/td")
    IN [raised |-> Truthy(fallback) /\ actividades = Null,
        ruc_data |->
          [f \in FieldNames |->
             CASE f = "ruc_nombre" -> ReadField(d, lost, f, "1/col")
               [] f = "tipo_contribuyente" -> ReadField(d, lost, f, "2/p")
               [] f = "tipo_documento" -> ReadField(d, lost, f, "3/p")
               [] f = "nombre_comercial" -> WithFallback(d, lost, f, "4/p", "3/p")
               [] f = "fecha_inscripcion" -> ReadField(d, lost, f, "5/2/p")
               [] f = "fecha_inicio_actividades" ->
                    WithFallback(d, lost, f, "5/4/p", "4/4/p")
               [] f = "estado" -> ReadField(d, lost, f, "6/p")
               [] f = "domicilio" -> WithFallback(d, lost, f, "8/p", "7/p")
               [] f = "sistema_emision" -> ReadField(d, lost, f, "9/2/p")
               [] f = "actividad_comercio_exterior" ->
                    WithFallback(d, lost, f, "9/4/p", "8/4/p")
               [] f = "sistema_contabilidad" -> sistema_contabilidad
               [] f = "actividades_economicas" ->
                    IF Truthy(fallback) /\ actividades # Null
                       /\ TextLen(fallback) > TextLen(actividades)
                    THEN fallback ELSE actividades
               [] f = "emisor_electronico_desde" -> ReadField(d, lost, f, "14/p")
               [] OTHER -> ReadField(d, lost, f, "15/p")]]

\* extract_ruc_info() and scrape(), lines 339-344, on the page dom. The wait
\* for the main container times out when the container is not there, and may
\* raise a WebDriverException of its own whatever the page shows
\* ("error_wait"); then the fields are read, line 303 may raise, and the
\* fields are stored under the key. The operator may interrupt it before the
\* store ("interrupt") or in the log lines after it ("interrupt_log").
ExtractRucFields ==
    /\ pc = "ext_dom"
    /\ \E o \in {"ok", "error_wait", "interrupt", "interrupt_log"} :
          CASE o = "interrupt" -> KeyFails("KeyboardInterrupt") /\ UNCHANGED data
            [] o = "error_wait" -> KeyFails("WebDriverException") /\ UNCHANGED data
            [] OTHER ->
                 IF ~dom.container
                 THEN /\ o = "ok"
                      /\ KeyFails("TimeoutException")
                      /\ UNCHANGED data
                 ELSE \E lost \in Losses :
                        LET fields == ExtractFields(dom.text, lost)
                        IN IF fields.raised
                           THEN /\ o = "ok"
                                /\ KeyFails("TypeError")
                                /\ UNCHANGED data
                           ELSE /\ data' = Write(data, CurrentKey, fields.ruc_data)
                                /\ IF o = "ok" THEN KeySucceeds /\ BrowserKept
                                               ELSE KeyFails("KeyboardInterrupt")
    /\ UNCHANGED <<network_enabled, net, page, keyexc, devtools>>
    /\ UNCHANGED prompts
    /\ AttemptFrame

\* A Sunat session about to extract the fields (line 339) for its only key:
\* the driver runs, the key is loaded and pending, the form is submitted and
\* the browser shows any result page.
InitFields ==
    /\ site = "sunat"
    /\ now = 1
    /\ pc = "ext_dom"
    /\ driver = TRUE
    /\ quits = 0
    /\ cleaned = FALSE
    /\ teardown_raised = "none"
    /\ exc = "none"
    /\ partial = "none"
    /\ raised = "none"
    /\ interrupted = FALSE
    /\ files = <<>>
    /\ data = <<>>
    /\ csv_path = TRUE
    /\ csv_file = [readable |-> TRUE, keys |-> <<"A">>]
    /\ csv_data = [loaded |-> TRUE, keys |-> <<"A">>]
    /\ dni_results = NewRows(<<"A">>)
    /\ index = 1
    /\ attempted = <<1>>
    /\ network_enabled = FALSE
    /\ net = [enabled |-> FALSE, patterns |-> FALSE]
    /\ log = <<>>
    /\ inflight = 0
    /\ page = 1
    /\ keyexc = "none"
    /\ devtools = <<>>
    /\ prompts = 0
    /\ snapshot = <<>>
    /\ caught = "none"
    /\ dom \in Pages
    /\ InitReinfoIdle

NextFields ==
    \/ ExtractRucFields
    \/ LoopNext

SpecFields == InitFields /\ [][NextFields]_vars

(* ------------------- run() called again on the object ------------------ *)
\* The caller calls run() once more on the scraper object after run() has
\* ended, with the same CSV file. Nothing of the object is reset: self.data,
\* self.dni_results, self.csv_data and the flag network_enabled are what the
\* earlier run left. The browser of the earlier run is gone (page, log and
\* network domain start afresh with the driver setup_driver() creates); the
\* bookkeeping of the run (exc, partial, raised, cleaned) starts over, and
\* quits goes on counting the shutdowns. The clock shows the same second or
\* a later one.
CallRunAgain ==
    /\ pc = "done"
    /\ quits < MaxRuns
    /\ pc' = "setup"
    /\ exc' = "none"
    /\ partial' = "none"
    /\ raised' = "none"
    /\ interrupted' = FALSE
    /\ cleaned' = FALSE
    /\ teardown_raised' = "none"
    /\ page' = 0
    /\ net' = [enabled |-> FALSE, patterns |-> FALSE]
    /\ log' = <<>>
    /\ inflight' = 0
    /\ now' \in {now} \cup {t \in {now + 1} : t <= MaxRuns}
    /\ UNCHANGED <<site, driver, quits, files, data>>
    /\ UNCHANGED <<csv_path, csv_file, csv_data, dni_results, index, attempted,
                   network_enabled, keyexc, devtools, prompts, snapshot, caught, dom>>
    /\ UNCHANGED reinfoVars

NextRerun ==
    \/ Next
    \/ CallRunAgain

\* The object the second call is studied on is pointed at a file of at most
\* one key.
InitRerun ==
    /\ Init
    /\ Len(csv_file.keys) <= 1

SpecRerun == InitRerun /\ [][NextRerun]_vars

(* ------------------------------ properties ----------------------------- *)
\* The key column of a ledger.
LedgerKeys(l) == [i \in 1..Len(l) |-> l[i].dni]

\* The batch loop has started the attempt of key number i.
Attempted(i) == \E j \in DOMAIN attempted : attempted[j] = i

RECURSIVE RowsOfPages(_)
\* The data rows of pages 1..n, each page once, in page order.
RowsOfPages(n) == IF n = 0 THEN <<>> ELSE RowsOfPages(n - 1) \o DataRows(TableOf(n))

\* The pages process_current_page has parsed, each counted once.
PagesProcessed == {parsed[i] : i \in DOMAIN parsed}

\* C1: at every point where output is written (run() is about to save, fully
\* or partially), a key has a payload in the dump if and only if its ledger
\* status is success.
C1_PayloadIffSuccess ==
    pc \in {"save", "handler"} =>
        \A i \in DOMAIN dni_results :
            (dni_results[i].dni \in DOMAIN data) <=> (dni_results[i].result = "success")

C3_LedgerMatchesInput ==
    FullLedger(site) \in DOMAIN files =>
        LedgerKeys(files[FullLedger(site)].content) = csv_file.keys

\* The sequence s is the beginning of the sequence t, and shorter.
ProperPrefix(s, t) == Len(s) < Len(t) /\ s = SubSeq(t, 1, Len(s))

\* C3: the ledger, in memory and as written to its end, has one row per key
\* that was loaded, in input order: the keys of the input file once
\* load_dni_data has read it, and no row when the run failed before that; a
\* ledger file whose writing was cut short holds the first of these rows, or
\* none.
C3_LedgerMatchesLoadedKeys ==
    /\ csv_data.loaded => csv_data.keys = csv_file.keys
    /\ ~csv_data.loaded => csv_data.keys = <<>>
    /\ LedgerKeys(dni_results) = csv_data.keys
    /\ FullLedger(site) \in DOMAIN files =>
          LET ledger == files[FullLedger(site)]
          IN /\ ledger.written = "whole" =>
                   LedgerKeys(ledger.content) = csv_data.keys
             /\ ledger.written = "part" =>
                   ProperPrefix(LedgerKeys(ledger.content), csv_data.keys)
             /\ ledger.written = "nothing" => ledger.content = <<>>

\* A ledger with the two different keys of the input, in input order, has been
\* written.
C3_Witness ==
    /\ csv_file.keys = <<"A", "B">>
    /\ FullLedger(site) \in DOMAIN files
    /\ files[FullLedger(site)].written = "whole"
    /\ LedgerKeys(files[FullLedger(site)].content) = <<"A", "B">>

\* C4: cleanup() has run whenever run() has returned or raised, and a browser
\* that was started is shut down exactly once (never twice, never before the
\* exit).
C4_TeardownOnEveryExit ==
    /\ quits <= 1
    /\ quits = 1 => driver
    /\ pc = "done" => (cleaned /\ quits = IF driver THEN 1 ELSE 0)

\* run() has exited after a partial save that raised, with the browser
\* started and shut down.
C4_Witness ==
    /\ pc = "done"
    /\ partial = "raised"
    /\ driver
    /\ cleaned
    /\ quits = 1

\* C5 as stated: after a failure other than an interrupt, run() has attempted
\* the partial write and what it raises is that failure.
C5_AlwaysReraisesFailure ==
    (pc = "done" /\ exc \notin {"none", "KeyboardInterrupt"}) =>
        (partial # "none" /\ raised = exc)

\* What leaves run() is x, unless the finally clause raised: then it is what
\* the finally clause raised.
LeavesRun(x) == raised = IF teardown_raised = "none" THEN x ELSE teardown_raised

\* What the except clause of run() raises after a failure it does not
\* swallow: the failure when the partial write completed, the partial
\* write's exception when that raised, the interrupt when the operator
\* interrupted the partial write or the log lines before it.
HandlerLeaves ==
    CASE partial = "ok" -> exc
      [] partial = "raised" -> "PartialSaveError"
      [] OTHER -> "KeyboardInterrupt"

\* C5: after a failure other than an interrupt, run() attempts the partial
\* write before anything leaves it, unless the operator interrupts the except
\* clause before the write begins; it re-raises that failure when the
\* partial write completes, the partial write's own exception leaves run()
\* when that write raises, and the interrupt when the operator interrupted
\* the write or the except clause; an exception of the teardown takes the
\* place of any of them.
C5_PartialWriteThenReraise ==
    /\ (raised \notin {"none", "KeyboardInterrupt"} /\ teardown_raised = "none")
          => partial # "none"
    /\ (pc \in {"finally", "done"} /\ exc \notin {"none", "KeyboardInterrupt"}) =>
          /\ partial = "none" => interrupted
          /\ LeavesRun(HandlerLeaves)

\* The full save failed, the partial write completed and the failure was
\* re-raised.
C5_Witness ==
    /\ pc = "done"
    /\ exc = "SaveError"
    /\ partial = "ok"
    /\ teardown_raised = "none"
    /\ raised = "SaveError"

\* The interrupted key, if the interrupt cut a key's attempt, is still
\* pending and is the last key attempted.
InterruptedKeyPending ==
    index \in DOMAIN dni_results =>
        /\ dni_results[index].result = ""
        /\ Len(attempted) = index
        /\ ~Attempted(index + 1)

\* The interrupted key, if the interrupt cut a key's attempt, is the last key
\* attempted; it is still pending, or it is marked "fail" for a failure of
\* its own that scrape() had caught before the interrupt arrived.
InterruptedKeyNotFailedByInterrupt ==
    index \in DOMAIN dni_results =>
        /\ \/ dni_results[index].result = "" /\ caught = "none"
           \/ /\ dni_results[index].result = "fail"
              /\ caught \notin {"none", "KeyboardInterrupt"}
        /\ Len(attempted) = index
        /\ ~Attempted(index + 1)

\* C6 as stated: after an interrupt run() has written the partial results,
\* torn down and returns without raising.
C6_InterruptAlwaysSwallowed ==
    (pc = "done" /\ exc = "KeyboardInterrupt") =>
        /\ InterruptedKeyPending
        /\ partial = "ok"
        /\ cleaned
        /\ raised = "none"

\* C6: an interrupt is never turned into a key's failure: once it has arrived
\* before the teardown run() ends on its failure path, no further key is
\* attempted, the interrupted key is pending (or marked for a failure of its
\* own that was caught before), the partial write is attempted unless a
\* second interrupt cuts the except clause before it, and the teardown runs;
\* run() returns without raising when the partial write completes, raises
\* the partial write's exception when that write raises, and the interrupt
\* when the write or the except clause was interrupted; an exception of the
\* teardown (an interrupt of it included) leaves run() in place of either.
C6_InterruptRoutedToFailurePath ==
    (pc = "done" /\ interrupted) =>
        /\ \/ exc = "KeyboardInterrupt"
           \/ partial = "interrupted"
           \/ exc # "none" /\ partial = "none"
           \/ teardown_raised = "KeyboardInterrupt"
        /\ cleaned
        /\ exc = "KeyboardInterrupt" =>
              /\ InterruptedKeyNotFailedByInterrupt
              /\ LeavesRun(IF partial = "ok" THEN "none" ELSE HandlerLeaves)

\* The operator interrupted the challenge prompt of the first of two keys:
\* the key is pending, the second key was never attempted, the partial write
\* completed and run() returned.
C6_Witness ==
    /\ pc = "done"
    /\ site = "redjum"
    /\ exc = "KeyboardInterrupt"
    /\ Len(dni_results) = 2
    /\ index = 1
    /\ page = 1
    /\ dni_results[1].result = ""
    /\ partial = "ok"
    /\ teardown_raised = "none"
    /\ raised = "none"
    /\ cleaned

\* C7: when run() finishes normally the full dump holds the rows of every
\* page 1..N exactly once, in page order.
C7_EveryPageOnce ==
    (pc = "done" /\ exc = "none") =>
        /\ data = RowsOfPages(num_pages)
        /\ FullDump(site) \in DOMAIN files
        /\ files[FullDump(site)] = Whole(RowsOfPages(num_pages))

\* C8: the traversal ends exactly when the next control is disabled: the
\* loop body runs only with the control enabled, the control is clicked at
\* most N-1 times, and when the loop has ended it was clicked N-1 times and
\* the last page is shown, whatever total the site reported.
C8_StopsWhenNextDisabled ==
    /\ clicks + 1 <= num_pages
    /\ pc \in {"loop_process", "loop_click"} => ~NextControlDisabled
    /\ pc = "save" => (clicks + 1 = num_pages /\ shown = num_pages)

\* The loop has ended on a grid of three pages after two clicks, the site
\* having reported a total of one page.
C8_Witness ==
    /\ pc = "save"
    /\ num_pages = 3
    /\ clicks = 2
    /\ total_pages = 1

\* C9: when the table or the next control was absent in mid-traversal and
\* the partial write completed, the timestamp-tagged partial dump holds the
\* rows of the pages processed so far, each page once, and run() re-raises
\* the error.
C9_PartialDumpHoldsPagesOnce ==
    (pc = "done" /\ exc = "NoSuchElementException" /\ partial = "ok") =>
        /\ PartialDump(site) \in DOMAIN files
        /\ files[PartialDump(site)] = Whole(RowsOfPages(Cardinality(PagesProcessed)))
        /\ raised = exc

\* C10: the payload stored for a key comes from an exchange of that key's own
\* attempt, never from an entry logged for an earlier key's submission.
C10_CorrelationIsolated ==
    site = "redjum" =>
        \A k \in DOMAIN data : csv_data.keys[data[k].from] = k

\* C11: when the target URL has been loaded for a key after the first, the
\* interception of the earlier key is off and the session flag is false.
C11_DisarmedBeforeNextLoad ==
    (site = "redjum" /\ pc = "nav_form" /\ index > 1) =>
        (~network_enabled /\ ~net.patterns)

\* The window holds a request whose URL matches the pattern and a response
\* with the same identifier whose body is a non-empty JSON document.
HasMatchedPair(w) ==
    \E i, j \in DOMAIN w :
        /\ w[i].method = "Network.requestWillBeSent" /\ w[i].url
        /\ w[j].method = "Network.responseReceived" /\ w[j].id = w[i].id
        /\ w[j].body = "json"

\* C12: when the window that was read holds a matching request and a
\* response with the same identifier, the body is recovered and stored,
\* whatever the order of the two entries and whatever lies between them.
C12_RecoveredInAnyOrder ==
    (pc = "ext_finally" /\ HasMatchedPair(devtools)) =>
        /\ keyexc = "none"
        /\ CurrentKey \in DOMAIN data
        /\ data[CurrentKey].truthy

\* C13: at the moment the lookup form has been submitted the interception is
\* armed: the network domain is enabled and the URL pattern is set.
C13_ArmedBeforeSubmit ==
    (site = "redjum" /\ pc = "settle") =>
        (network_enabled /\ net.enabled /\ net.patterns)

\* C14: when the target URL is about to be loaded for a key after the first,
\* no log entry of an earlier attempt is still unread.
C14_NothingUnreadAtNextAttempt ==
    (site = "redjum" /\ pc = "nav_get" /\ index > 1) => log = <<>>

\* The identifiers of the window's requests whose URL matches the pattern.
MatchingIds(w) ==
    {w[i].id : i \in {j \in DOMAIN w :
                        w[j].method = "Network.requestWillBeSent" /\ w[j].url}}

\* The window gives nothing to recover: no request matches the pattern, or
\* every response to a matching request has a body that cannot be parsed.
NoParsableMatch(w) ==
    \A j \in DOMAIN w :
        (w[j].method = "Network.responseReceived" /\ w[j].id \in MatchingIds(w))
            => w[j].body = "bad"

\* C15: a read of a window with no matching request, or whose matched bodies
\* do not parse, stores no payload and raises; the exception marks that key
\* "fail" and the loop goes on with the next position, unless the operator
\* interrupts the disarming.
C15_NoExchangeFailsTheKeyOnly ==
    [][ /\ (/\ pc = "ext_read" /\ pc' = "ext_finally"
            /\ keyexc' \in {"none", "NoDataException"}
            /\ NoParsableMatch(devtools'))
           => (keyexc' = "NoDataException" /\ data' = data)
        /\ (pc = "ext_finally" /\ keyexc = "NoDataException" /\ pc' # "handler")
           => /\ pc' = "loop"
              /\ dni_results' = SetResult(dni_results, index, "fail")
              /\ index' = index + 1
              /\ data' = data ]_vars

\* The window read for the first of two keys held a matching request and a
\* response to it whose body did not parse; the read raised.
C15_Witness ==
    /\ pc = "ext_finally"
    /\ index = 1
    /\ Len(dni_results) = 2
    /\ keyexc = "NoDataException"
    /\ MatchingIds(devtools) # {}
    /\ \E j \in DOMAIN devtools :
          /\ devtools[j].method = "Network.responseReceived"
          /\ devtools[j].id \in MatchingIds(devtools)
    /\ NoParsableMatch(devtools)

\* The timestamp-tagged name a partial ledger would carry.
TaggedLedger(s) ==
    Stamped(CASE s = "redjum" -> "data/redjum_scraper_partial_data_<timestamp>.csv"
              [] s = "sunat"  -> "data/sunat_scraper_partial_data_<timestamp>.csv"
              [] OTHER        -> "data/reinfo_scraper_partial_data_<timestamp>.csv",
            now)

\* C16: a completed partial write has written the dump and the ledger under
\* timestamp-tagged names and nothing under the full-run ledger name; tagged
\* artifacts exist only after a failure.
C16_PartialArtifactsTagged ==
    /\ PartialDump(site) \in DOMAIN files => exc # "none"
    /\ partial = "ok" =>
          /\ PartialDump(site) \in DOMAIN files
          /\ TaggedLedger(site) \in DOMAIN files
          /\ FullLedger(site) \notin DOMAIN files

\* run() has ended Completed: nothing was raised in the try block, the
\* browser started, both full artifacts are written with the final contents,
\* and no partial write was attempted.
Completed ==
    /\ exc = "none" /\ partial = "none" /\ driver
    /\ FullDump(site) \in DOMAIN files
    /\ files[FullDump(site)] = Whole(data)
    /\ FullLedger(site) \in DOMAIN files
    /\ files[FullLedger(site)] = Whole(SecondContent)

\* run() has ended Failed: something was raised and the partial write was
\* attempted.
Failed == exc # "none" /\ partial # "none"

\* run() has ended with neither: something was raised and the operator's
\* interrupt cut the except clause before the partial write.
CutShort ==
    /\ exc # "none" /\ partial = "none"
    /\ interrupted
    /\ LeavesRun("KeyboardInterrupt")

\* run() ends either Completed or Failed; a partial write is never attempted
\* without a failure.
CompletedOrFailed ==
    /\ partial # "none" => exc # "none"
    /\ pc = "done" => (Completed \/ Failed)

\* The full save has, in this step, written both artifacts to their end.
FullWriteCompletes ==
    /\ pc = "save"
    /\ FullDump(site) \in DOMAIN files'
    /\ files'[FullDump(site)] = Whole(data)
    /\ FullLedger(site) \in DOMAIN files'
    /\ files'[FullLedger(site)] = Whole(SecondContent)

\* C17 as stated: run() ends Completed or Failed, and a full write that has
\* written both artifacts is never followed by a partial write.
C17_NeverBothWrites ==
    /\ []CompletedOrFailed
    /\ [][FullWriteCompletes => pc' = "finally"]_vars

\* C17: run() ends Completed or Failed, or with neither when the operator's
\* interrupt cut the except clause before the partial write; a partial write
\* is attempted only when something was raised; the one run that has both a
\* full write that wrote both artifacts and a partial write is the run the
\* operator interrupted in save_results after the ledger was written.
C17_CompletedOrFailed ==
    /\ [](partial # "none" => exc # "none")
    /\ [](pc = "done" => (Completed \/ Failed \/ CutShort))
    /\ [][FullWriteCompletes =>
            \/ pc' = "finally"
            \/ pc' = "handler" /\ exc' = "KeyboardInterrupt"]_vars

\* A run over two keys has ended Completed.
C17_Witness ==
    /\ pc = "done"
    /\ exc = "none"
    /\ partial = "none"
    /\ Len(dni_results) = 2
    /\ FullLedger(site) \in DOMAIN files
    /\ files[FullLedger(site)] = Whole(dni_results)

\* After a failed driver setup nothing of scrape() has happened and no
\* browser shutdown is issued.
NothingAttemptedAfterSetupFailure ==
    /\ index = 0
    /\ attempted = <<>>
    /\ page = 0
    /\ ~csv_data.loaded
    /\ dni_results = <<>>
    /\ data = <<>>
    /\ quits = 0

\* C18 as stated: after a failed driver setup no key is attempted, no
\* shutdown is issued and the setup failure is what run() raises.
C18_SetupFailureAlwaysReachesCaller ==
    (exc = "WebDriverException" /\ ~driver) =>
        /\ NothingAttemptedAfterSetupFailure
        /\ pc = "done" => raised = exc

\* C18: after a failed driver setup no key is attempted and no shutdown is
\* issued; the setup failure is what run() raises when the partial write
\* completes, the partial write's exception when that write raises, and the
\* interrupt when the operator interrupts the except clause, the partial
\* write or the last log line of run().
C18_SetupFailureAbortsRun ==
    (exc = "WebDriverException" /\ ~driver) =>
        /\ NothingAttemptedAfterSetupFailure
        /\ teardown_raised \in {"none", "KeyboardInterrupt"}
        /\ pc = "done" => LeavesRun(HandlerLeaves)

\* Driver setup failed on a run pointed at a file with keys; the partial write
\* completed and the setup failure left run().
C18_Witness ==
    /\ pc = "done"
    /\ exc = "WebDriverException"
    /\ ~driver
    /\ csv_file.keys # <<>>
    /\ partial = "ok"
    /\ raised = "WebDriverException"
    /\ quits = 0

\* C19: a lookup run that completes without a failure has had at least one
\* key.
C19_LookupNeedsAKey ==
    (pc = "done" /\ exc = "none") => Len(csv_data.keys) >= 1

\* The positions of a key's attempt.
AttemptPcs ==
    {"nav_disarm", "nav_cleanup", "nav_blank", "nav_get", "nav_form", "nav_captcha",
     "nav_submit", "settle", "ext_arm", "ext_read", "ext_finally", "ext_dom"}

\* C20: the attempts start in input order, one position after the other, and
\* while a key's attempt runs every earlier key has a terminal status.
C20_SequentialInInputOrder ==
    /\ \A j \in DOMAIN attempted : attempted[j] = j
    /\ Len(attempted) <= index
    /\ pc \in AttemptPcs =>
          /\ Len(attempted) = index
          /\ index \in DOMAIN dni_results
          /\ \A i \in 1..(index - 1) : dni_results[i].result \in {"success", "fail"}

\* The second key's target URL is about to be loaded after the first key's
\* attempt failed.
C20_Witness ==
    /\ pc = "nav_get"
    /\ index = 2
    /\ attempted = <<1, 2>>
    /\ dni_results[1].result = "fail"
    /\ dni_results[2].result = ""

\* C21: whenever the target URL is about to be loaded, the reset of this
\* attempt has been carried out: the browser shows the blank page and no log
\* entry is pending.
C21_ResetBeforeLoad ==
    pc = "nav_get" => (page = 0 /\ log = <<>>)

\* The current key is marked "fail" and the loop goes on to the next key;
\* nothing else of the ledger or of the accumulated data changes.
MarkedFailOnly ==
    /\ pc' = "loop"
    /\ dni_results' = SetResult(dni_results, index, "fail")
    /\ index' = index + 1
    /\ data' = data
    /\ exc' = exc

\* The operator's interrupt ends the scrape: it is no per-key outcome. It
\* arrives in the step itself and leaves the key pending, or it arrives while
\* scrape() logs the failure of the step, after the key was marked "fail".
InterruptedAttempt ==
    /\ pc' = "handler"
    /\ exc' = "KeyboardInterrupt"
    /\ index' = index
    /\ data' = data
    /\ \/ dni_results' = dni_results
       \/ /\ dni_results' = SetResult(dni_results, index, "fail")
          /\ caught' \notin {"none", "KeyboardInterrupt"}

C23_ChallengeFailureIsPerKey ==
    [][(pc = "nav_captcha") =>
          (\/ /\ pc' = "nav_submit"
              /\ UNCHANGED <<dni_results, index, data>>
           \/ MarkedFailOnly
           \/ InterruptedAttempt)]_vars

\* Keys [A, B]: A succeeded, the challenge raised for B; the ledger is
\* [A success, B fail] and the data holds only A.
C23_Witness ==
    /\ site = "redjum"
    /\ pc = "loop"
    /\ index = 3
    /\ csv_data.keys = <<"A", "B">>
    /\ dni_results = <<[dni |-> "A", result |-> "success"], [dni |-> "B", result |-> "fail"]>>
    /\ DOMAIN data = {"A"}
    /\ caught = "EOFError"
    /\ prompts = 1
    /\ page = 2

\* The positions of an attempt after the challenge step.
AfterChallengePcs == {"nav_submit", "settle", "ext_arm", "ext_read", "ext_finally"}

\* C24: in an attempt of the challenge-requiring strategy the challenge step
\* is called at most once; it has been called exactly once whenever the form
\* is about to be submitted or has been submitted, and not at all before the
\* key was typed; the other lookup strategy never calls it.
C24_ChallengeOncePerAttempt ==
    /\ prompts <= 1
    /\ (site = "redjum" /\ pc \in AfterChallengePcs) => prompts = 1
    /\ pc \in {"nav_disarm", "nav_cleanup", "nav_blank", "nav_get", "nav_form",
               "nav_captcha"} => prompts = 0
    /\ site = "sunat" => prompts = 0

\* The second key's form has been submitted after one call of the challenge
\* step in this attempt, the first key's attempt having called it too.
C24_Witness ==
    /\ site = "redjum"
    /\ pc = "settle"
    /\ index = 2
    /\ prompts = 1
    /\ dni_results[1].result = "success"

\* C26: no step removes a ledger row or changes a row's key; a row with a
\* terminal status is never changed; the only row a step writes is the
\* current key's, from pending to "success" or "fail", and that write ends
\* the key's attempt: the loop goes on to the next key, or the operator's
\* interrupt ends the scrape while the failure is logged.
C26_StatusWrittenOnce ==
    [][ /\ Len(dni_results') >= Len(dni_results)
        /\ \A i \in DOMAIN dni_results :
              /\ dni_results'[i].dni = dni_results[i].dni
              /\ dni_results[i].result \in {"success", "fail"}
                    => dni_results'[i] = dni_results[i]
              /\ dni_results'[i] # dni_results[i]
                    => /\ i = index
                       /\ pc \in AttemptPcs
                       /\ dni_results[i].result = ""
                       /\ dni_results'[i].result \in {"success", "fail"}
                       /\ \A j \in DOMAIN dni_results :
                             j # i => dni_results'[j] = dni_results[j]
                       /\ \/ index' = index + 1 /\ pc' = "loop"
                          \/ /\ index' = index
                             /\ pc' = "handler"
                             /\ exc' = "KeyboardInterrupt"
                             /\ dni_results'[i].result = "fail" ]_vars

\* The first key failed, the second succeeded after it, and both rows are in
\* the ledger.
C26_Witness ==
    /\ pc = "loop"
    /\ index = 3
    /\ Len(dni_results) = 2
    /\ dni_results[1].result = "fail"
    /\ dni_results[2].result = "success"

\* The identifier extract_dni_info remembers when it comes to entry j of the
\* window.
RememberedAt(entries, j) ==
    CorrelateFrom(NoCorrelation, SubSeq(entries, 1, j - 1)).obj_request_id

\* The window holds a response to the remembered matching request whose body
\* was fetched and parsed.
FetchedAndParsed(entries) ==
    \E j \in DOMAIN entries :
       /\ entries[j].method = "Network.responseReceived"
       /\ entries[j].id = RememberedAt(entries, j)
       /\ entries[j].body # "bad"

\* C27: when the window the attempt read holds a response to the remembered
\* matching request whose body parsed, be it an empty list or object, the
\* attempt does not fail and the key has a payload.
C27_ParsedBodyIsSuccess ==
    (pc = "ext_finally" /\ FetchedAndParsed(devtools)) =>
        /\ keyexc = "none"
        /\ CurrentKey \in DOMAIN data

\* C28: when the window the attempt read holds a request whose URL matches
\* the pattern and, after it, a response with that request's identifier whose
\* body is a non-empty JSON document (and no response with an empty body),
\* the response is fetched and its body stored, also when another matching
\* request lies between the two.
C28_EveryMatchingIdRemembered ==
    (/\ pc = "ext_finally"
     /\ \E i, j \in DOMAIN devtools :
           /\ i < j
           /\ devtools[i].method = "Network.requestWillBeSent" /\ devtools[i].url
           /\ devtools[j].method = "Network.responseReceived"
           /\ devtools[j].id = devtools[i].id
           /\ devtools[j].body = "json"
     /\ \A m \in DOMAIN devtools : devtools[m].body # "empty")
    => /\ keyexc = "none"
       /\ CurrentKey \in DOMAIN data

\* Entry j of the window is a response to a request, seen before it in the
\* window, whose URL matches the pattern.
AnswersMatchingRequest(w, j) ==
    /\ w[j].method = "Network.responseReceived"
    /\ \E i \in 1..(j - 1) :
          /\ w[i].method = "Network.requestWillBeSent"
          /\ w[i].url
          /\ w[i].id = w[j].id

\* C29: every response whose body the correlation step fetches answers a
\* pattern-matching request seen earlier in the window the attempt read, and
\* a payload stored by the attempt is the parsed body of such a response.
C29_PayloadOnlyFromMatchingRequest ==
    pc = "ext_finally" =>
        /\ \A j \in DOMAIN devtools :
              (/\ devtools[j].method = "Network.responseReceived"
               /\ devtools[j].id = RememberedAt(devtools, j))
              => AnswersMatchingRequest(devtools, j)
        /\ data # snapshot =>
              /\ keyexc = "none"
              /\ DOMAIN data = DOMAIN snapshot \cup {CurrentKey}
              /\ \A k \in DOMAIN snapshot \ {CurrentKey} : data[k] = snapshot[k]
              /\ \E j \in DOMAIN devtools :
                    /\ AnswersMatchingRequest(devtools, j)
                    /\ devtools[j].body = "json"
                    /\ data[CurrentKey] = [truthy |-> TRUE, from |-> devtools[j].id]

\* The attempt stored the body of the response to the matching request while
\* the window also held a parsable response to another request.
C29_Witness ==
    /\ pc = "ext_finally"
    /\ keyexc = "none"
    /\ CurrentKey \in DOMAIN data
    /\ \E j \in DOMAIN devtools :
          /\ devtools[j].method = "Network.responseReceived"
          /\ devtools[j].body = "json"
          /\ devtools[j].id # data[CurrentKey].from
          /\ ~AnswersMatchingRequest(devtools, j)

\* C30: when the key attempted last has been marked "fail", the accumulated
\* data is what it was when that attempt started: the same keys, each with
\* the same payload.
C30_FailedAttemptLeavesData ==
    (/\ attempted # <<>>
     /\ dni_results[attempted[Len(attempted)]].result = "fail")
    => /\ DOMAIN data = DOMAIN snapshot
       /\ \A k \in DOMAIN data : data[k] = snapshot[k]

\* The key A was stored by the first attempt; the second attempt, for the
\* same key, read the log, found no data and failed: the payload of A is the
\* one the first attempt stored.
C30_Witness ==
    /\ pc = "loop"
    /\ index = 3
    /\ csv_data.keys = <<"A", "A">>
    /\ dni_results[1].result = "success"
    /\ dni_results[2].result = "fail"
    /\ caught = "NoDataException"
    /\ DOMAIN data = {"A"}
    /\ data["A"].from = 1
    /\ data = snapshot

\* C25: a completed save_results leaves the data and the ledger as they were
\* and writes exactly them, the ledger rows in the ledger's order; when it
\* runs again on the unchanged session (after run()'s own save, or after an
\* earlier repeated save) every file is left with the content it had.
C25_SaveResultsIdempotent ==
    [][(pc' = "resaved") =>
          (/\ data' = data
           /\ dni_results' = dni_results
           /\ files'[FullDump(site)] = Whole(data)
           /\ files'[FullLedger(site)] = Whole(dni_results)
           /\ (pc = "resaved" \/ (pc = "done" /\ exc = "none" /\ partial = "none"))
                 => files' = files)]_vars

\* run() completed for two keys, one with a payload, and saved; save_results
\* has run once more.
C25_Witness ==
    /\ pc = "resaved"
    /\ exc = "none"
    /\ partial = "none"
    /\ Len(dni_results) = 2
    /\ dni_results[1].result = "fail"
    /\ dni_results[2].result = "success"
    /\ DOMAIN data # {}
    /\ files[FullLedger(site)] = Whole(dni_results)
    /\ files[FullDump(site)] = Whole(data)

\* The rows of l before some position are terminal and the rows from it on
\* are pending.
TerminalThenPending(l) ==
    \E i \in 1..(Len(l) + 1) :
       \A k \in DOMAIN l :
          /\ k < i => l[k].result \in {"success", "fail"}
          /\ k >= i => l[k].result = ""

\* C31 as stated: the ledger always is a run of terminal rows followed by a
\* run of pending rows; the ledger file written by the partial save after an
\* interrupt is the ledger, with the rows before the interrupted key terminal
\* and the rows of the interrupted key and of the keys after it pending.
C31_InterruptedKeyAlwaysPending ==
    /\ TerminalThenPending(dni_results)
    /\ (interrupted /\ partial = "ok") =>
          LET written == files[PartialLedger(site)].content
          IN /\ files[PartialLedger(site)] = Whole(dni_results)
             /\ \A k \in DOMAIN written :
                   written[k].result \in {"success", "fail"} <=> k < index

\* C31: the ledger always is a run of terminal rows followed by a run of
\* pending rows; the ledger file written by the partial save after an
\* interrupt is the ledger, with the rows before the interrupted key terminal
\* and the rows of the keys after it pending; the row of the interrupted key
\* is pending, or shows "fail" when the interrupt arrived while scrape() was
\* logging a failure of that key that it had already recorded.
C31_TerminalPrefixPendingSuffix ==
    /\ TerminalThenPending(dni_results)
    /\ (interrupted /\ partial = "ok") =>
          LET written == files[PartialLedger(site)].content
          IN /\ files[PartialLedger(site)] = Whole(dni_results)
             /\ \A k \in DOMAIN written :
                   /\ k < index => written[k].result \in {"success", "fail"}
                   /\ k > index => written[k].result = ""
                   /\ k = index =>
                         \/ written[k].result = "" /\ caught = "none"
                         \/ /\ written[k].result = "fail"
                            /\ caught \notin {"none", "KeyboardInterrupt"}

\* The second of two keys was interrupted after the first had completed; the
\* partial ledger on disk shows the first terminal and the second pending.
C31_Witness ==
    /\ pc = "done"
    /\ interrupted
    /\ partial = "ok"
    /\ index = 2
    /\ files[PartialLedger(site)].written = "whole"
    /\ Len(files[PartialLedger(site)].content) = 2
    /\ files[PartialLedger(site)].content[1].result = "success"
    /\ files[PartialLedger(site)].content[2].result = ""

\* The selectors extract_ruc_info tries for a field: the first and, where
\* there is one, the fallback.
FieldSelectors(f) ==
    CASE f = "ruc_nombre" -> {"1/col"}
      [] f = "tipo_contribuyente" -> {"2/p"}
      [] f = "tipo_documento" -> {"3/p"}
      [] f = "nombre_comercial" -> {"4/p", "3/p"}
      [] f = "fecha_inscripcion" -> {"5/2/p"}
      [] f = "fecha_inicio_actividades" -> {"5/4/p", "4/4/p"}
      [] f = "estado" -> {"6/p"}
      [] f = "domicilio" -> {"8/p", "7/p"}
      [] f = "sistema_emision" -> {"9/2/p"}
      [] f = "actividad_comercio_exterior" -> {"9/4/p", "8/4/p"}
      [] f = "sistema_contabilidad" -> {"10/p", "9/2/p"}
      [] f = "actividades_economicas" -> {"11/td", "10/td"}
      [] f = "emisor_electronico_desde" -> {"14/p"}
      [] OTHER -> {"15/p"}

\* C32: once the attempt of the key is over without an interrupt and the
\* wait for the main container has not raised an error of its own, the key
\* has failed exactly when the main container was not on the page, and then
\* with the wait's timeout and nothing stored; with the container on the page
\* the key is marked "success" and its payload has every field name, a field
\* being null when none of its selectors finds an element.
C32_MissingFieldIsNull ==
    (pc = "loop" /\ index = 2 /\ caught # "WebDriverException") =>
        IF dom.container
        THEN /\ dni_results[1].result = "success"
             /\ DOMAIN data = {"A"}
             /\ DOMAIN data["A"] = FieldNames
             /\ \A f \in FieldNames :
                   (\A s \in FieldSelectors(f) : dom.text[s] = Null)
                      => data["A"][f] = Null
        ELSE /\ dni_results[1].result = "fail"
             /\ caught = "TimeoutException"
             /\ data = <<>>

\* C33 as stated: when the partial write raised while run() handled a
\* failure, the teardown has run and the write's own exception is what leaves
\* run().
C33_PartialWriteFailureAlwaysPropagates ==
    (pc = "done" /\ partial = "raised") =>
        /\ exc # "none"
        /\ cleaned
        /\ quits = IF driver THEN 1 ELSE 0
        /\ raised = "PartialSaveError"

\* C33: when the partial write raised while run() handled a failure, run()
\* has ended with the teardown done (the shutdown of a started browser called
\* once) and with the write's own exception leaving it, not the failure that
\* was being handled; this is so too when that failure was the operator's
\* interrupt. When the teardown itself raised (the browser shutdown raised,
\* or the operator interrupted it or one of its log lines), its exception
\* leaves run() instead.
C33_PartialWriteFailurePropagates ==
    (pc = "done" /\ partial = "raised") =>
        /\ exc # "none"
        /\ cleaned
        /\ quits = IF driver THEN 1 ELSE 0
        /\ LeavesRun("PartialSaveError")

\* The operator interrupted the run, the partial write raised an exception of
\* its own, the browser was shut down and that exception left run().
C33_Witness ==
    /\ pc = "done"
    /\ exc = "KeyboardInterrupt"
    /\ partial = "raised"
    /\ teardown_raised = "none"
    /\ raised = "PartialSaveError"
    /\ driver
    /\ cleaned
    /\ quits = 1

\* C34: whenever run() has ended without a failure, be it the first or a
\* later call on the object, the ledger has one row per input key, in input
\* order, and every row has a terminal status.
C34_OneRowPerKeyAfterRerun ==
    (pc = "done" /\ exc = "none") =>
        /\ LedgerKeys(dni_results) = csv_file.keys
        /\ \A i \in DOMAIN dni_results : dni_results[i].result \in {"success", "fail"}

\* C35: the flag network_enabled goes from true to false only in a disarm
\* (at the start of a key's navigation or at the end of its extraction) both
\* of whose commands succeeded, which leaves the interception patterns
\* cleared and the network domain disabled; a disarm with the flag false
\* changes nothing in the browser; a disarm whose command failed keeps the
\* flag and lets the attempt go on, and every attempt starts with a disarm.
C35_FlagClearedOnlyAfterBothCommands ==
    [][ /\ (network_enabled /\ ~network_enabled')
              => /\ pc \in {"nav_disarm", "ext_finally"}
                 /\ net' = [enabled |-> FALSE, patterns |-> FALSE]
        /\ (pc \in {"nav_disarm", "ext_finally"} /\ ~network_enabled)
              => (net' = net /\ ~network_enabled')
        /\ (pc = "nav_disarm" /\ network_enabled /\ network_enabled')
              => \/ pc' = "nav_cleanup" /\ dni_results' = dni_results
                 \/ pc' = "handler" /\ exc' = "KeyboardInterrupt"
        /\ (pc = "ext_finally" /\ network_enabled /\ network_enabled')
              => \/ pc' = "loop"
                 \/ pc' = "handler" /\ exc' = "KeyboardInterrupt"
        /\ (pc = "loop" /\ pc' \in AttemptPcs) => pc' = "nav_disarm" ]_vars

\* The disarm at the end of the first key's extraction cleared the patterns
\* but failed to disable the network domain: the flag is still set when the
\* second key's navigation is about to disarm again.
C35_Witness ==
    /\ site = "redjum"
    /\ pc = "nav_disarm"
    /\ index = 2
    /\ network_enabled
    /\ net = [enabled |-> TRUE, patterns |-> FALSE]

=============================================================================
